---------------------------- MODULE Spec2Model ----------------------------
(***************************************************************************)
(* A model of the BBR congestion control module src/bbr/tcp_bbr_note.c.    *)
(*                                                                         *)
(* The socket is the record sk = [bbr |-> struct bbr, tp |-> the fields of *)
(* struct sock / tcp_sock / inet_connection_sock that the module reads or  *)
(* writes, obs |-> what one call did (history only)].  Every C function is *)
(* an operator from a socket to the socket it leaves behind, in the order  *)
(* of the source.  Bit-fields are kept as numbers of their width; flags    *)
(* are 0 or 1 as in C.                                                     *)
(***************************************************************************)
EXTENDS Integers, Sequences, FiniteSets, TLC

VARIABLES bbr,    \* struct bbr: the congestion control block
          tp,     \* the transport's fields of the connection
          obs,    \* history: what the last call did
          op,     \* history: the last call's name
          rs,     \* history: the rate sample of the last bbr_main call
          env,    \* the traffic pattern of this connection
          calls   \* number of calls made so far

vars == <<bbr, tp, obs, op, rs, env, calls>>

----------------------------------------------------------------------------
(* Constants of the source and of the kernel headers it includes.          *)

BW_SCALE == 24

BW_UNIT == 16777216

BBR_SCALE == 8

BBR_UNIT == 256

BBR_STARTUP == 0

BBR_DRAIN == 1

BBR_PROBE_BW == 2

BBR_PROBE_RTT == 3

CYCLE_LEN == 8

bbr_bw_rtts == CYCLE_LEN + 2

bbr_min_rtt_win_sec == 10

bbr_probe_rtt_mode_ms == 200

bbr_min_tso_rate == 1200000

bbr_pacing_margin_percent == 1

bbr_high_gain == (BBR_UNIT * 2885) \div 1000 + 1

bbr_drain_gain == (BBR_UNIT * 1000) \div 2885

bbr_cwnd_gain == BBR_UNIT * 2

bbr_pacing_gain == <<(BBR_UNIT * 5) \div 4, (BBR_UNIT * 3) \div 4,
                     BBR_UNIT, BBR_UNIT, BBR_UNIT,
                     BBR_UNIT, BBR_UNIT, BBR_UNIT>>

bbr_cycle_rand == 7

bbr_cwnd_min_target == 4

bbr_full_bw_thresh == (BBR_UNIT * 5) \div 4

bbr_full_bw_cnt == 3

bbr_lt_intvl_min_rtts == 4

bbr_lt_loss_thresh == 50

bbr_lt_bw_ratio == BBR_UNIT \div 8

bbr_lt_bw_diff == 4000 \div 8

bbr_lt_bw_max_rtts == 48

bbr_extra_acked_gain == BBR_UNIT

bbr_extra_acked_win_rtts == 5

bbr_ack_epoch_acked_reset_thresh == 1048576

bbr_extra_acked_max_us == 100 * 1000

\* <net/tcp.h>, <linux/jiffies.h>, <linux/netdevice.h>
TCP_CA_Open == 0

TCP_CA_Disorder == 1

TCP_CA_CWR == 2

TCP_CA_Recovery == 3

TCP_CA_Loss == 4

CA_EVENT_TX_START == 0

CA_EVENT_CWND_RESTART == 1

TCP_INIT_CWND == 10

TCP_INFINITE_SSTHRESH == 2147483647

USEC_PER_SEC == 1000000

USEC_PER_MSEC == 1000

HZ == 1000

GSO_MAX_SIZE == 65536

MAX_TCP_HEADER == 320

SK_PACING_SHIFT == 10

\* ~0U and ~0UL: "no RTT sample" and "no pacing ceiling".  TLC's integers
\* end at 2^31 - 1, which stands for both; every other quantity of
\* the model stays below it.
U32_MAX == 2147483647

----------------------------------------------------------------------------
(* Arithmetic.                                                             *)

Min(a, b) == IF a < b THEN a ELSE b

Max(a, b) == IF a > b THEN a ELSE b

Abs(a) == IF a < 0 THEN 0 - a ELSE a

Pow2(n) == 2 ^ n

\* (u64)x * y >> n for an even n, exactly, without an intermediate above
\* 2^31: with H = 2^(n/2), x = xh*H + xl and y = yh*H + yl,
\*   floor(x*y / H^2) = xh*yh + floor((xh*yl + xl*yh + floor(xl*yl / H)) / H).
MulShr(x, y, n) ==
    LET H  == Pow2(n \div 2)
        xh == x \div H
        xl == x % H
        yh == y \div H
        yl == y % H
    IN  xh * yh + ((xh * yl + xl * yh + ((xl * yl) \div H)) \div H)

\* before(), after() of <net/tcp.h>; the model's counters never wrap.
before(a, b) == a < b

after(a, b) == a > b

\* tcp_stamp_us_delta(): max_t(s64, t1 - t0, 0)
tcp_stamp_us_delta(t1, t0) == Max(t1 - t0, 0)

\* msecs_to_jiffies(): rounds up
msecs_to_jiffies(m) == (m * HZ + 999) \div 1000

----------------------------------------------------------------------------
(* lib/win_minmax.c: the three-sample windowed max filter behind bbr->bw.  *)
(* s[1] is the best, s[2] the second and s[3] the third choice.            *)

minmax_get(m) == m[1].v

minmax_reset(t, meas) ==
    LET val == [t |-> t, v |-> meas] IN <<val, val, val>>

minmax_subwin_update(m, win, val) ==
    LET dt == val.t - m[1].t
    IN  IF dt > win
        THEN LET m1 == <<m[2], m[3], val>>
             IN  IF val.t - m1[1].t > win
                 THEN <<m1[2], m1[3], val>>
                 ELSE m1
        ELSE IF m[2].t = m[1].t /\ dt > win \div 4
        THEN <<m[1], val, val>>
        ELSE IF m[3].t = m[2].t /\ dt > win \div 2
        THEN <<m[1], m[2], val>>
        ELSE m

minmax_running_max(m, win, t, meas) ==
    LET val == [t |-> t, v |-> meas]
    IN  IF val.v >= m[1].v \/ val.t - m[3].t > win
        THEN minmax_reset(t, meas)
        ELSE IF val.v >= m[2].v
        THEN minmax_subwin_update(<<m[1], val, val>>, win, val)
        ELSE IF val.v >= m[3].v
        THEN minmax_subwin_update(<<m[1], m[2], val>>, win, val)
        ELSE minmax_subwin_update(m, win, val)

----------------------------------------------------------------------------
(* History: the modes a call assigned to bbr->mode, in order, the locals   *)
(* bw and target_cwnd of bbr_main / bbr_set_cwnd, the snd_cwnd that        *)
(* bbr_check_probe_rtt_done assigned, and the local cwnd that              *)
(* bbr_set_cwnd_to_recover_or_restore restored on leaving recovery (0: it  *)
(* assigned none); for bbr_cwnd_event, the event it was called with (-1:   *)
(* another call); and whether bbr_update_cycle_phase advanced the phase.   *)

NoObs ==
    [modes |-> <<>>, bw |-> 0, target_cwnd |-> 0, exit_cwnd |-> 0,
     restored |-> 0, event |-> 0 - 1, advanced |-> FALSE]

SetMode(sk, m) ==
    [sk EXCEPT !.bbr.mode = m, !.obs.modes = Append(@, m)]

----------------------------------------------------------------------------
(* The functions of tcp_bbr_note.c.                                        *)

tcp_packets_in_flight(sk) == sk.tp.packets_in_flight

bbr_full_bw_reached(sk) == sk.bbr.full_bw_reached # 0

bbr_max_bw(sk) == minmax_get(sk.bbr.bw)

bbr_bw_ignoring_lt(sk) == bbr_max_bw(sk)

bbr_bw(sk) == IF sk.bbr.lt_use_bw # 0 THEN sk.bbr.lt_bw ELSE bbr_max_bw(sk)

bbr_extra_acked(sk) == Max(sk.bbr.extra_acked[1], sk.bbr.extra_acked[2])

bbr_rate_bytes_per_sec(sk, rate, gain) ==
    LET r1 == rate * sk.tp.mss_cache
        r2 == MulShr(r1, gain, BBR_SCALE)
    IN  MulShr(r2, (USEC_PER_SEC \div 100) * (100 - bbr_pacing_margin_percent),
               BW_SCALE)

bbr_bw_to_pacing_rate_unclamped(sk, bw, gain) ==
    bbr_rate_bytes_per_sec(sk, bw, gain)

bbr_bw_to_pacing_rate(sk, bw, gain) ==
    Min(bbr_rate_bytes_per_sec(sk, bw, gain), sk.tp.sk_max_pacing_rate)

bbr_init_pacing_rate_from_rtt(sk) ==
    LET seen   == sk.tp.srtt_us # 0
        rtt_us == IF seen THEN Max(sk.tp.srtt_us \div 8, 1) ELSE USEC_PER_MSEC
        bw     == (sk.tp.snd_cwnd * BW_UNIT) \div rtt_us
        sk1    == IF seen THEN [sk EXCEPT !.bbr.has_seen_rtt = 1] ELSE sk
    IN  [sk1 EXCEPT !.tp.sk_pacing_rate =
                        bbr_bw_to_pacing_rate(sk1, bw, bbr_high_gain)]

bbr_set_pacing_rate_always(sk, bw, gain) ==
    LET assign(sk1, rate) == [sk1 EXCEPT !.tp.sk_pacing_rate = rate]
    IN  assign(IF sk.bbr.has_seen_rtt = 0 /\ sk.tp.srtt_us # 0
               THEN bbr_init_pacing_rate_from_rtt(sk)
               ELSE sk,
               bbr_bw_to_pacing_rate(sk, bw, gain))

\* assign(sk1, rate): the function's last statement, on the socket sk1 that
\* the has_seen_rtt branch leaves and the local rate.
bbr_set_pacing_rate(sk, bw, gain) ==
    LET assign(sk1, rate) ==
            IF bbr_full_bw_reached(sk1) \/ rate > sk1.tp.sk_pacing_rate
            THEN [sk1 EXCEPT !.tp.sk_pacing_rate = rate]
            ELSE sk1
    IN  assign(IF sk.bbr.has_seen_rtt = 0 /\ sk.tp.srtt_us # 0
               THEN bbr_init_pacing_rate_from_rtt(sk)
               ELSE sk,
               bbr_bw_to_pacing_rate(sk, bw, gain))

bbr_min_tso_segs(sk) ==
    IF sk.tp.sk_pacing_rate < bbr_min_tso_rate \div 8 THEN 1 ELSE 2

bbr_tso_segs_generic(sk, mss_now, gso_max_size) ==
    LET bytes == Min(sk.tp.sk_pacing_rate \div Pow2(SK_PACING_SHIFT),
                     gso_max_size - 1 - MAX_TCP_HEADER)
    IN  Max(bytes \div mss_now, bbr_min_tso_segs(sk))

bbr_tso_segs_goal(sk) == bbr_tso_segs_generic(sk, sk.tp.mss_cache, GSO_MAX_SIZE)

bbr_save_cwnd_overwriting(sk) ==
    [sk EXCEPT !.bbr.prior_cwnd = sk.tp.snd_cwnd]

bbr_save_cwnd(sk) ==
    IF sk.bbr.prev_ca_state < TCP_CA_Recovery /\ sk.bbr.mode # BBR_PROBE_RTT
    THEN [sk EXCEPT !.bbr.prior_cwnd = sk.tp.snd_cwnd]
    ELSE [sk EXCEPT !.bbr.prior_cwnd = Max(sk.bbr.prior_cwnd, sk.tp.snd_cwnd)]

bbr_bdp(sk, bw, gain) ==
    IF sk.bbr.min_rtt_us = U32_MAX
    THEN TCP_INIT_CWND
    ELSE LET w == bw * sk.bbr.min_rtt_us
         IN  (MulShr(w, gain, BBR_SCALE) + BW_UNIT - 1) \div BW_UNIT

bbr_quantization_budget(sk, cwnd) ==
    LET c1 == cwnd + 3 * bbr_tso_segs_goal(sk)
        c2 == ((c1 + 1) \div 2) * 2
    IN  IF sk.bbr.mode = BBR_PROBE_BW /\ sk.bbr.cycle_idx = 0
        THEN c2 + 2
        ELSE c2

bbr_inflight(sk, bw, gain) ==
    bbr_quantization_budget(sk, bbr_bdp(sk, bw, gain))

bbr_packets_in_net_at_edt(sk, inflight_now) ==
    LET interval_us        == sk.tp.edt_us
        interval_delivered == MulShr(bbr_bw(sk), interval_us, BW_SCALE)
        inflight_at_edt    == IF sk.bbr.pacing_gain > BBR_UNIT
                              THEN inflight_now + bbr_tso_segs_goal(sk)
                              ELSE inflight_now
    IN  IF interval_delivered >= inflight_at_edt
        THEN 0
        ELSE inflight_at_edt - interval_delivered

bbr_ack_aggregation_cwnd(sk) ==
    IF bbr_extra_acked_gain # 0 /\ bbr_full_bw_reached(sk)
    THEN LET max_aggr_cwnd == MulShr(bbr_bw(sk), bbr_extra_acked_max_us,
                                     BW_SCALE)
             aggr_cwnd     == (bbr_extra_acked_gain * bbr_extra_acked(sk))
                              \div Pow2(BBR_SCALE)
         IN  Min(aggr_cwnd, max_aggr_cwnd)
    ELSE 0

bbr_set_cwnd_to_recover_or_restore_without_restore(sk, s, acked) ==
    LET prev_state == sk.bbr.prev_ca_state
        state      == sk.tp.icsk_ca_state
        cwnd0      == IF s.losses > 0
                      THEN Max(sk.tp.snd_cwnd - s.losses, 1)
                      ELSE sk.tp.snd_cwnd
        entering   == state = TCP_CA_Recovery /\ prev_state # TCP_CA_Recovery
        exiting    == ~entering /\ prev_state >= TCP_CA_Recovery
                                /\ state < TCP_CA_Recovery
        cwnd1      == IF entering THEN tcp_packets_in_flight(sk) + acked
                      ELSE cwnd0
        sk1        == IF entering
                      THEN [sk EXCEPT !.bbr.packet_conservation = 1,
                                      !.bbr.next_rtt_delivered = sk.tp.delivered]
                      ELSE IF exiting
                      THEN [sk EXCEPT !.bbr.packet_conservation = 0,
                                      !.obs.restored = cwnd0]
                      ELSE sk
        sk2        == [sk1 EXCEPT !.bbr.prev_ca_state = state]
    IN  IF sk2.bbr.packet_conservation # 0
        THEN [sk |-> sk2, ret |-> TRUE,
              new_cwnd |-> Max(cwnd1, tcp_packets_in_flight(sk2) + acked)]
        ELSE [sk |-> sk2, ret |-> FALSE, new_cwnd |-> cwnd1]

\* The result of bbr_set_cwnd_to_recover_or_restore(): the socket, *new_cwnd
\* and the return value.
bbr_set_cwnd_to_recover_or_restore(sk, s, acked) ==
    LET prev_state == sk.bbr.prev_ca_state
        state      == sk.tp.icsk_ca_state
        cwnd0      == IF s.losses > 0
                      THEN Max(sk.tp.snd_cwnd - s.losses, 1)
                      ELSE sk.tp.snd_cwnd
        entering   == state = TCP_CA_Recovery /\ prev_state # TCP_CA_Recovery
        exiting    == ~entering /\ prev_state >= TCP_CA_Recovery
                                /\ state < TCP_CA_Recovery
        cwnd1      == IF entering THEN tcp_packets_in_flight(sk) + acked
                      ELSE IF exiting THEN Max(cwnd0, sk.bbr.prior_cwnd)
                      ELSE cwnd0
        sk1        == IF entering
                      THEN [sk EXCEPT !.bbr.packet_conservation = 1,
                                      !.bbr.next_rtt_delivered = sk.tp.delivered]
                      ELSE IF exiting
                      THEN [sk EXCEPT !.bbr.packet_conservation = 0,
                                      !.obs.restored =
                                          Max(cwnd0, sk.bbr.prior_cwnd)]
                      ELSE sk
        sk2        == [sk1 EXCEPT !.bbr.prev_ca_state = state]
    IN  IF sk2.bbr.packet_conservation # 0
        THEN [sk |-> sk2, ret |-> TRUE,
              new_cwnd |-> Max(cwnd1, tcp_packets_in_flight(sk2) + acked)]
        ELSE [sk |-> sk2, ret |-> FALSE, new_cwnd |-> cwnd1]

\* bbr_set_cwnd() from its label "done": the caps on the new cwnd.
bbr_set_cwnd_done_no_clamp(sk, cwnd) ==
    IF sk.bbr.mode = BBR_PROBE_RTT
    THEN [sk EXCEPT !.tp.snd_cwnd = Min(cwnd, bbr_cwnd_min_target)]
    ELSE [sk EXCEPT !.tp.snd_cwnd = cwnd]

bbr_set_cwnd_done_no_probe_rtt_cap(sk, cwnd) ==
    [sk EXCEPT !.tp.snd_cwnd = Min(cwnd, sk.tp.snd_cwnd_clamp)]

bbr_set_cwnd_done(sk, cwnd) ==
    LET capped == Min(cwnd, sk.tp.snd_cwnd_clamp)
    IN  IF sk.bbr.mode = BBR_PROBE_RTT
        THEN [sk EXCEPT !.tp.snd_cwnd = Min(capped, bbr_cwnd_min_target)]
        ELSE [sk EXCEPT !.tp.snd_cwnd = capped]

bbr_set_cwnd_no_floor(sk, s, acked, bw, gain) ==
    LET grow(r, target_cwnd) ==
            LET cwnd1 == IF bbr_full_bw_reached(r.sk)
                         THEN Min(r.new_cwnd + acked, target_cwnd)
                         ELSE IF r.new_cwnd < target_cwnd
                                 \/ r.sk.tp.delivered < TCP_INIT_CWND
                         THEN r.new_cwnd + acked
                         ELSE r.new_cwnd
            IN  bbr_set_cwnd_done(
                    [r.sk EXCEPT !.obs.target_cwnd = target_cwnd],
                    cwnd1)
        conserve(r) ==
            IF r.ret
            THEN bbr_set_cwnd_done(r.sk, r.new_cwnd)
            ELSE grow(r, bbr_quantization_budget(r.sk,
                             bbr_bdp(r.sk, bw, gain)
                             + bbr_ack_aggregation_cwnd(r.sk)))
    IN  IF acked = 0
        THEN bbr_set_cwnd_done(sk, sk.tp.snd_cwnd)
        ELSE conserve(bbr_set_cwnd_to_recover_or_restore(sk, s, acked))

bbr_set_cwnd_growing_in_recovery(sk, s, acked, bw, gain) ==
    LET grow(r, target_cwnd) ==
            LET cwnd1 == IF bbr_full_bw_reached(r.sk)
                         THEN Min(r.new_cwnd + acked, target_cwnd)
                         ELSE IF r.new_cwnd < target_cwnd
                                 \/ r.sk.tp.delivered < TCP_INIT_CWND
                         THEN r.new_cwnd + acked
                         ELSE r.new_cwnd
            IN  bbr_set_cwnd_done(
                    [r.sk EXCEPT !.obs.target_cwnd = target_cwnd],
                    Max(cwnd1, bbr_cwnd_min_target))
        conserve(r) ==
            grow(r, bbr_quantization_budget(r.sk,
                        bbr_bdp(r.sk, bw, gain)
                        + bbr_ack_aggregation_cwnd(r.sk)))
    IN  IF acked = 0
        THEN bbr_set_cwnd_done(sk, sk.tp.snd_cwnd)
        ELSE conserve(bbr_set_cwnd_to_recover_or_restore(sk, s, acked))

bbr_set_cwnd(sk, s, acked, bw, gain) ==
    LET grow(r, target_cwnd) ==
            LET cwnd1 == IF bbr_full_bw_reached(r.sk)
                         THEN Min(r.new_cwnd + acked, target_cwnd)
                         ELSE IF r.new_cwnd < target_cwnd
                                 \/ r.sk.tp.delivered < TCP_INIT_CWND
                         THEN r.new_cwnd + acked
                         ELSE r.new_cwnd
            IN  bbr_set_cwnd_done(
                    [r.sk EXCEPT !.obs.target_cwnd = target_cwnd],
                    Max(cwnd1, bbr_cwnd_min_target))
        conserve(r) ==
            IF r.ret
            THEN bbr_set_cwnd_done(r.sk, r.new_cwnd)
            ELSE grow(r, bbr_quantization_budget(r.sk,
                             bbr_bdp(r.sk, bw, gain)
                             + bbr_ack_aggregation_cwnd(r.sk)))
    IN  IF acked = 0
        THEN bbr_set_cwnd_done(sk, sk.tp.snd_cwnd)
        ELSE conserve(bbr_set_cwnd_to_recover_or_restore(sk, s, acked))

bbr_is_next_cycle_phase_ignoring_losses(sk, s) ==
    LET is_full_length ==
            tcp_stamp_us_delta(sk.tp.delivered_mstamp, sk.bbr.cycle_mstamp)
                > sk.bbr.min_rtt_us
        inflight == bbr_packets_in_net_at_edt(sk, s.prior_in_flight)
        bw       == bbr_max_bw(sk)
    IN  IF sk.bbr.pacing_gain = BBR_UNIT
        THEN is_full_length
        ELSE IF sk.bbr.pacing_gain > BBR_UNIT
        THEN is_full_length
             /\ inflight >= bbr_inflight(sk, bw, sk.bbr.pacing_gain)
        ELSE is_full_length \/ inflight <= bbr_inflight(sk, bw, BBR_UNIT)

bbr_is_next_cycle_phase_draining_full_length(sk, s) ==
    LET is_full_length ==
            tcp_stamp_us_delta(sk.tp.delivered_mstamp, sk.bbr.cycle_mstamp)
                > sk.bbr.min_rtt_us
        inflight == bbr_packets_in_net_at_edt(sk, s.prior_in_flight)
        bw       == bbr_max_bw(sk)
    IN  IF sk.bbr.pacing_gain = BBR_UNIT
        THEN is_full_length
        ELSE IF sk.bbr.pacing_gain > BBR_UNIT
        THEN is_full_length
             /\ (s.losses # 0
                 \/ inflight >= bbr_inflight(sk, bw, sk.bbr.pacing_gain))
        ELSE is_full_length

bbr_is_next_cycle_phase_cruising_to_target(sk, s) ==
    LET is_full_length ==
            tcp_stamp_us_delta(sk.tp.delivered_mstamp, sk.bbr.cycle_mstamp)
                > sk.bbr.min_rtt_us
        inflight == bbr_packets_in_net_at_edt(sk, s.prior_in_flight)
        bw       == bbr_max_bw(sk)
    IN  IF sk.bbr.pacing_gain = BBR_UNIT
        THEN is_full_length
             /\ inflight <= bbr_inflight(sk, bw, BBR_UNIT)
        ELSE IF sk.bbr.pacing_gain > BBR_UNIT
        THEN is_full_length
             /\ (s.losses # 0
                 \/ inflight >= bbr_inflight(sk, bw, sk.bbr.pacing_gain))
        ELSE is_full_length \/ inflight <= bbr_inflight(sk, bw, BBR_UNIT)

bbr_is_next_cycle_phase(sk, s) ==
    LET is_full_length ==
            tcp_stamp_us_delta(sk.tp.delivered_mstamp, sk.bbr.cycle_mstamp)
                > sk.bbr.min_rtt_us
        inflight == bbr_packets_in_net_at_edt(sk, s.prior_in_flight)
        bw       == bbr_max_bw(sk)
    IN  IF sk.bbr.pacing_gain = BBR_UNIT
        THEN is_full_length
        ELSE IF sk.bbr.pacing_gain > BBR_UNIT
        THEN is_full_length
             /\ (s.losses # 0
                 \/ inflight >= bbr_inflight(sk, bw, sk.bbr.pacing_gain))
        ELSE is_full_length \/ inflight <= bbr_inflight(sk, bw, BBR_UNIT)

bbr_advance_cycle_phase_no_stamp(sk) ==
    [sk EXCEPT !.bbr.cycle_idx = (sk.bbr.cycle_idx + 1) % CYCLE_LEN]

bbr_advance_cycle_phase(sk) ==
    [sk EXCEPT !.bbr.cycle_idx = (sk.bbr.cycle_idx + 1) % CYCLE_LEN,
               !.bbr.cycle_mstamp = sk.tp.delivered_mstamp]

bbr_update_cycle_phase(sk, s) ==
    IF sk.bbr.mode = BBR_PROBE_BW /\ bbr_is_next_cycle_phase(sk, s)
    THEN bbr_advance_cycle_phase([sk EXCEPT !.obs.advanced = TRUE])
    ELSE sk

bbr_reset_startup_mode(sk) == SetMode(sk, BBR_STARTUP)

\* sk.tp.prandom is what prandom_u32_max(bbr_cycle_rand) returns in this call.
bbr_reset_probe_bw_mode_no_advance(sk) ==
    LET sk1 == SetMode(sk, BBR_PROBE_BW)
    IN  [sk1 EXCEPT !.bbr.cycle_idx = CYCLE_LEN - 1 - sk.tp.prandom,
                    !.bbr.cycle_mstamp = sk.tp.delivered_mstamp]

bbr_reset_probe_bw_mode(sk) ==
    LET sk1 == SetMode(sk, BBR_PROBE_BW)
    IN  bbr_advance_cycle_phase(
            [sk1 EXCEPT !.bbr.cycle_idx = CYCLE_LEN - 1 - sk.tp.prandom])

bbr_reset_mode_always_probe_bw(sk) == bbr_reset_probe_bw_mode(sk)

bbr_reset_mode_always_startup(sk) == bbr_reset_startup_mode(sk)

bbr_reset_mode(sk) ==
    IF ~bbr_full_bw_reached(sk)
    THEN bbr_reset_startup_mode(sk)
    ELSE bbr_reset_probe_bw_mode(sk)

bbr_reset_lt_bw_sampling_interval(sk) ==
    [sk EXCEPT !.bbr.lt_last_stamp = sk.tp.delivered_mstamp \div USEC_PER_MSEC,
               !.bbr.lt_last_delivered = sk.tp.delivered,
               !.bbr.lt_last_lost = sk.tp.lost,
               !.bbr.lt_rtt_cnt = 0]

bbr_reset_lt_bw_sampling(sk) ==
    bbr_reset_lt_bw_sampling_interval(
        [sk EXCEPT !.bbr.lt_bw = 0,
                   !.bbr.lt_use_bw = 0,
                   !.bbr.lt_is_sampling = 0])

\* diff * BBR_UNIT <= bbr_lt_bw_ratio * lt_bw, both products in 32 bits
\* unsigned: 2^8 * (diff mod 2^24) against 2^5 * (lt_bw mod 2^27), each side
\* divided by bbr_lt_bw_ratio.
bbr_lt_bw_ratio_close(diff, lt_bw) ==
    (diff % Pow2(32 - BBR_SCALE)) * (BBR_UNIT \div bbr_lt_bw_ratio)
        <= lt_bw % Pow2(32 - BBR_SCALE + 3)

bbr_lt_bw_interval_done(sk, bw) ==
    LET diff == Abs(bw - sk.bbr.lt_bw)
    IN  IF sk.bbr.lt_bw # 0
           /\ (bbr_lt_bw_ratio_close(diff, sk.bbr.lt_bw)
               \/ bbr_rate_bytes_per_sec(sk, diff, BBR_UNIT) <= bbr_lt_bw_diff)
        THEN [sk EXCEPT !.bbr.lt_bw = (bw + sk.bbr.lt_bw) \div 2,
                        !.bbr.lt_use_bw = 1,
                        !.bbr.pacing_gain = BBR_UNIT,
                        !.bbr.lt_rtt_cnt = 0]
        ELSE bbr_reset_lt_bw_sampling_interval([sk EXCEPT !.bbr.lt_bw = bw])

\* The branch of bbr_lt_bw_sampling() taken while lt_use_bw is set.
bbr_lt_bw_sampling_in_use_one_late(sk) ==
    LET cnt == (sk.bbr.lt_rtt_cnt + 1) % 128
    IN  IF sk.bbr.mode = BBR_PROBE_BW /\ sk.bbr.round_start # 0
        THEN IF cnt > bbr_lt_bw_max_rtts
             THEN bbr_reset_probe_bw_mode(bbr_reset_lt_bw_sampling(sk))
             ELSE [sk EXCEPT !.bbr.lt_rtt_cnt = cnt]
        ELSE sk

bbr_lt_bw_sampling_in_use(sk) ==
    LET cnt == (sk.bbr.lt_rtt_cnt + 1) % 128
    IN  IF sk.bbr.mode = BBR_PROBE_BW /\ sk.bbr.round_start # 0
        THEN IF cnt >= bbr_lt_bw_max_rtts
             THEN bbr_reset_probe_bw_mode(bbr_reset_lt_bw_sampling(sk))
             ELSE [sk EXCEPT !.bbr.lt_rtt_cnt = cnt]
        ELSE sk

\* bbr_lt_bw_sampling() from "Calculate packets lost and delivered in
\* sampling interval" on: the sampling interval ends on this lossy sample.
bbr_lt_bw_sampling_end(sk) ==
    LET lost      == sk.tp.lost - sk.bbr.lt_last_lost
        delivered == sk.tp.delivered - sk.bbr.lt_last_delivered
        t         == sk.tp.delivered_mstamp \div USEC_PER_MSEC
                     - sk.bbr.lt_last_stamp
    IN  IF delivered = 0
           \/ lost * Pow2(BBR_SCALE) < bbr_lt_loss_thresh * delivered
        THEN sk
        ELSE IF t < 1
        THEN sk
        ELSE IF t >= U32_MAX \div USEC_PER_MSEC
        THEN bbr_reset_lt_bw_sampling(sk)
        ELSE bbr_lt_bw_interval_done(sk,
                 (delivered * BW_UNIT) \div (t * USEC_PER_MSEC))

bbr_lt_bw_sampling(sk, s) ==
    IF sk.bbr.lt_use_bw # 0
    THEN bbr_lt_bw_sampling_in_use(sk)
    ELSE IF sk.bbr.lt_is_sampling = 0 /\ s.losses = 0
    THEN sk
    ELSE LET sk1 == IF sk.bbr.lt_is_sampling = 0
                    THEN [bbr_reset_lt_bw_sampling_interval(sk)
                             EXCEPT !.bbr.lt_is_sampling = 1]
                    ELSE sk
             sk2 == IF sk1.bbr.round_start # 0
                    THEN [sk1 EXCEPT !.bbr.lt_rtt_cnt = (@ + 1) % 128]
                    ELSE sk1
         IN  IF s.is_app_limited
             THEN bbr_reset_lt_bw_sampling(sk1)
             ELSE IF sk2.bbr.lt_rtt_cnt < bbr_lt_intvl_min_rtts
             THEN sk2
             ELSE IF sk2.bbr.lt_rtt_cnt > 4 * bbr_lt_intvl_min_rtts
             THEN bbr_reset_lt_bw_sampling(sk2)
             ELSE IF s.losses = 0
             THEN sk2
             ELSE bbr_lt_bw_sampling_end(sk2)

bbr_update_bw_feeding_every_sample(sk, s) ==
    LET sk0 == [sk EXCEPT !.bbr.round_start = 0]
    IN  IF s.delivered < 0 \/ s.interval_us <= 0
        THEN sk0
        ELSE LET sk1 == IF ~before(s.prior_delivered, sk0.bbr.next_rtt_delivered)
                        THEN [sk0 EXCEPT !.bbr.next_rtt_delivered = sk.tp.delivered,
                                         !.bbr.rtt_cnt = @ + 1,
                                         !.bbr.round_start = 1,
                                         !.bbr.packet_conservation = 0]
                        ELSE sk0
                 bw  == (s.delivered * BW_UNIT) \div s.interval_us
                 max_filter(sk2) ==
                     [sk2 EXCEPT !.bbr.bw =
                          minmax_running_max(@, bbr_bw_rtts, sk2.bbr.rtt_cnt, bw)]
             IN  max_filter(bbr_lt_bw_sampling(sk1, s))

bbr_update_bw_keeping_round_start(sk, s) ==
    IF s.delivered < 0 \/ s.interval_us <= 0
    THEN sk
    ELSE LET sk1 == IF ~before(s.prior_delivered, sk.bbr.next_rtt_delivered)
                    THEN [sk EXCEPT !.bbr.next_rtt_delivered = sk.tp.delivered,
                                    !.bbr.rtt_cnt = @ + 1,
                                    !.bbr.round_start = 1,
                                    !.bbr.packet_conservation = 0]
                    ELSE sk
             bw  == (s.delivered * BW_UNIT) \div s.interval_us
             max_filter(sk2) ==
                 IF ~s.is_app_limited \/ bw >= bbr_max_bw(sk2)
                 THEN [sk2 EXCEPT !.bbr.bw =
                           minmax_running_max(@, bbr_bw_rtts,
                                              sk2.bbr.rtt_cnt, bw)]
                 ELSE sk2
         IN  max_filter(bbr_lt_bw_sampling(sk1, s))

bbr_update_bw(sk, s) ==
    LET sk0 == [sk EXCEPT !.bbr.round_start = 0]
    IN  IF s.delivered < 0 \/ s.interval_us <= 0
        THEN sk0
        ELSE LET sk1 == IF ~before(s.prior_delivered, sk0.bbr.next_rtt_delivered)
                        THEN [sk0 EXCEPT !.bbr.next_rtt_delivered = sk.tp.delivered,
                                         !.bbr.rtt_cnt = @ + 1,
                                         !.bbr.round_start = 1,
                                         !.bbr.packet_conservation = 0]
                        ELSE sk0
                 bw  == (s.delivered * BW_UNIT) \div s.interval_us
                 \* sk2: the socket after bbr_lt_bw_sampling()
                 max_filter(sk2) ==
                     IF ~s.is_app_limited \/ bw >= bbr_max_bw(sk2)
                     THEN [sk2 EXCEPT !.bbr.bw =
                               minmax_running_max(@, bbr_bw_rtts,
                                                  sk2.bbr.rtt_cnt, bw)]
                     ELSE sk2
             IN  max_filter(bbr_lt_bw_sampling(sk1, s))

bbr_update_ack_aggregation(sk, s) ==
    IF bbr_extra_acked_gain = 0 \/ s.acked_sacked <= 0
       \/ s.delivered < 0 \/ s.interval_us <= 0
    THEN sk
    ELSE LET rtts == Min(31, sk.bbr.extra_acked_win_rtts + 1)
             idx  == IF sk.bbr.extra_acked_win_idx # 0 THEN 0 ELSE 1
             \* "Compute excess data delivered, beyond what was expected", on
             \* the socket sk2 that the epoch reset leaves
             excess(sk2, expected_acked) ==
                 LET epoch_acked == Min(1048575,
                                        sk2.bbr.ack_epoch_acked + s.acked_sacked)
                     \* u32 arithmetic: a negative difference wraps to a
                     \* huge number
                     extra_acked == IF epoch_acked < expected_acked
                                    THEN sk2.tp.snd_cwnd
                                    ELSE Min(epoch_acked - expected_acked,
                                             sk2.tp.snd_cwnd)
                     cur         == sk2.bbr.extra_acked_win_idx + 1
                 IN  IF extra_acked > sk2.bbr.extra_acked[cur]
                     THEN [sk2 EXCEPT !.bbr.ack_epoch_acked = epoch_acked,
                                      !.bbr.extra_acked[cur] =
                                          extra_acked % 65536]
                     ELSE [sk2 EXCEPT !.bbr.ack_epoch_acked = epoch_acked]
             \* "Reset the aggregation epoch if ACK rate is below expected
             \* rate or significantly large no. of ack received"
             epoch(sk1, expected) ==
                 IF sk1.bbr.ack_epoch_acked <= expected
                    \/ sk1.bbr.ack_epoch_acked + s.acked_sacked
                           >= bbr_ack_epoch_acked_reset_thresh
                 THEN excess([sk1 EXCEPT !.bbr.ack_epoch_acked = 0,
                                         !.bbr.ack_epoch_mstamp =
                                             sk1.tp.delivered_mstamp],
                             0)
                 ELSE excess(sk1, expected)
             \* "Compute how many packets we expected to be delivered over
             \* epoch", on the socket sk1 that the round_start branch leaves
             rate(sk1) ==
                 epoch(sk1,
                       MulShr(bbr_bw(sk1),
                              tcp_stamp_us_delta(sk1.tp.delivered_mstamp,
                                                 sk1.bbr.ack_epoch_mstamp),
                              BW_SCALE))
         IN  rate(IF sk.bbr.round_start = 0
                  THEN sk
                  ELSE IF rtts >= bbr_extra_acked_win_rtts
                  THEN [sk EXCEPT !.bbr.extra_acked_win_rtts = 0,
                                  !.bbr.extra_acked_win_idx = idx,
                                  !.bbr.extra_acked[idx + 1] = 0]
                  ELSE [sk EXCEPT !.bbr.extra_acked_win_rtts = rtts])

bbr_check_full_bw_reached_unguarded(sk, s) ==
    LET bw_thresh == MulShr(sk.bbr.full_bw, bbr_full_bw_thresh, BBR_SCALE)
        cnt       == (sk.bbr.full_bw_cnt + 1) % 4
    IN  IF sk.bbr.round_start = 0 \/ s.is_app_limited
        THEN sk
        ELSE IF bbr_max_bw(sk) >= bw_thresh
        THEN [sk EXCEPT !.bbr.full_bw = bbr_max_bw(sk),
                        !.bbr.full_bw_cnt = 0]
        ELSE [sk EXCEPT !.bbr.full_bw_cnt = cnt,
                        !.bbr.full_bw_reached =
                            IF cnt >= bbr_full_bw_cnt THEN 1 ELSE 0]

bbr_check_full_bw_reached_after_two(sk, s) ==
    LET bw_thresh == MulShr(sk.bbr.full_bw, bbr_full_bw_thresh, BBR_SCALE)
        cnt       == (sk.bbr.full_bw_cnt + 1) % 4
    IN  IF bbr_full_bw_reached(sk) \/ sk.bbr.round_start = 0
           \/ s.is_app_limited
        THEN sk
        ELSE IF bbr_max_bw(sk) >= bw_thresh
        THEN [sk EXCEPT !.bbr.full_bw = bbr_max_bw(sk),
                        !.bbr.full_bw_cnt = 0]
        ELSE [sk EXCEPT !.bbr.full_bw_cnt = cnt,
                        !.bbr.full_bw_reached =
                            IF cnt >= bbr_full_bw_cnt - 1 THEN 1 ELSE 0]

bbr_check_full_bw_reached(sk, s) ==
    LET bw_thresh == MulShr(sk.bbr.full_bw, bbr_full_bw_thresh, BBR_SCALE)
        cnt       == (sk.bbr.full_bw_cnt + 1) % 4
    IN  IF bbr_full_bw_reached(sk) \/ sk.bbr.round_start = 0
           \/ s.is_app_limited
        THEN sk
        ELSE IF bbr_max_bw(sk) >= bw_thresh
        THEN [sk EXCEPT !.bbr.full_bw = bbr_max_bw(sk),
                        !.bbr.full_bw_cnt = 0]
        ELSE [sk EXCEPT !.bbr.full_bw_cnt = cnt,
                        !.bbr.full_bw_reached =
                            IF cnt >= bbr_full_bw_cnt THEN 1 ELSE 0]

bbr_check_drain_before_full_bw(sk, s) ==
    LET drain(d) ==
            [d EXCEPT !.tp.snd_ssthresh =
                          bbr_inflight(d, bbr_max_bw(d), BBR_UNIT)]
        fall_through(sk1) ==
            IF sk1.bbr.mode = BBR_DRAIN
               /\ bbr_packets_in_net_at_edt(sk1, tcp_packets_in_flight(sk1))
                      <= bbr_inflight(sk1, bbr_max_bw(sk1), BBR_UNIT)
            THEN bbr_reset_probe_bw_mode(sk1)
            ELSE sk1
    IN  fall_through(IF sk.bbr.mode = BBR_STARTUP
                     THEN drain(SetMode(sk, BBR_DRAIN))
                     ELSE sk)

bbr_check_drain_to_bare_bdp(sk, s) ==
    LET drain(d) ==
            [d EXCEPT !.tp.snd_ssthresh =
                          bbr_inflight(d, bbr_max_bw(d), BBR_UNIT)]
        fall_through(sk1) ==
            IF sk1.bbr.mode = BBR_DRAIN
               /\ bbr_packets_in_net_at_edt(sk1, tcp_packets_in_flight(sk1))
                      <= bbr_bdp(sk1, bbr_max_bw(sk1), BBR_UNIT)
            THEN bbr_reset_probe_bw_mode(sk1)
            ELSE sk1
    IN  fall_through(IF sk.bbr.mode = BBR_STARTUP /\ bbr_full_bw_reached(sk)
                     THEN drain(SetMode(sk, BBR_DRAIN))
                     ELSE sk)

\* drain(d): the body of the first if, after its assignment to bbr->mode;
\* fall_through(sk1): the second if, on the socket the first one leaves.
bbr_check_drain(sk, s) ==
    LET drain(d) ==
            [d EXCEPT !.tp.snd_ssthresh =
                          bbr_inflight(d, bbr_max_bw(d), BBR_UNIT)]
        fall_through(sk1) ==
            IF sk1.bbr.mode = BBR_DRAIN
               /\ bbr_packets_in_net_at_edt(sk1, tcp_packets_in_flight(sk1))
                      <= bbr_inflight(sk1, bbr_max_bw(sk1), BBR_UNIT)
            THEN bbr_reset_probe_bw_mode(sk1)
            ELSE sk1
    IN  fall_through(IF sk.bbr.mode = BBR_STARTUP /\ bbr_full_bw_reached(sk)
                     THEN drain(SetMode(sk, BBR_DRAIN))
                     ELSE sk)

bbr_check_probe_rtt_done_keeping_cwnd(sk) ==
    IF ~(sk.bbr.probe_rtt_done_stamp # 0
         /\ after(sk.tp.jiffies, sk.bbr.probe_rtt_done_stamp))
    THEN sk
    ELSE bbr_reset_mode(
             [sk EXCEPT !.bbr.min_rtt_stamp = sk.tp.jiffies,
                        !.obs.exit_cwnd = sk.tp.snd_cwnd])

bbr_check_probe_rtt_done_before_stamp(sk) ==
    IF ~(sk.bbr.probe_rtt_done_stamp # 0
         /\ before(sk.tp.jiffies, sk.bbr.probe_rtt_done_stamp))
    THEN sk
    ELSE bbr_reset_mode(
             [sk EXCEPT !.bbr.min_rtt_stamp = sk.tp.jiffies,
                        !.tp.snd_cwnd = Max(sk.tp.snd_cwnd, sk.bbr.prior_cwnd),
                        !.obs.exit_cwnd = Max(sk.tp.snd_cwnd, sk.bbr.prior_cwnd)])

bbr_check_probe_rtt_done(sk) ==
    IF ~(sk.bbr.probe_rtt_done_stamp # 0
         /\ after(sk.tp.jiffies, sk.bbr.probe_rtt_done_stamp))
    THEN sk
    ELSE bbr_reset_mode(
             [sk EXCEPT !.bbr.min_rtt_stamp = sk.tp.jiffies,
                        !.tp.snd_cwnd = Max(sk.tp.snd_cwnd, sk.bbr.prior_cwnd),
                        !.obs.exit_cwnd = Max(sk.tp.snd_cwnd, sk.bbr.prior_cwnd)])

bbr_update_min_rtt_on_delayed_acks(sk, s) ==
    LET filter_expired ==
            after(sk.tp.jiffies,
                  sk.bbr.min_rtt_stamp + bbr_min_rtt_win_sec * HZ)
        \* "Restart after idle ends only once we process a new S/ACK for
        \* data"
        idle(sk3) ==
            IF s.delivered > 0
            THEN [sk3 EXCEPT !.bbr.idle_restart = 0]
            ELSE sk3
        \* b: the socket after "if (bbr->round_start)"
        round_done(b) ==
            IF b.bbr.probe_rtt_round_done # 0
            THEN bbr_check_probe_rtt_done(b)
            ELSE b
        \* a: the socket after "Ignore low rate samples during this mode"
        probing(a) ==
            IF a.bbr.probe_rtt_done_stamp = 0
               /\ tcp_packets_in_flight(a) <= bbr_cwnd_min_target
            THEN [a EXCEPT !.bbr.probe_rtt_done_stamp =
                               a.tp.jiffies
                               + msecs_to_jiffies(bbr_probe_rtt_mode_ms),
                           !.bbr.probe_rtt_round_done = 0,
                           !.bbr.next_rtt_delivered = a.tp.delivered]
            ELSE IF a.bbr.probe_rtt_done_stamp # 0
            THEN round_done(IF a.bbr.round_start # 0
                            THEN [a EXCEPT !.bbr.probe_rtt_round_done = 1]
                            ELSE a)
            ELSE a
        \* "if (bbr->mode == BBR_PROBE_RTT)", on the socket sk2 that the
        \* entry into PROBE_RTT leaves
        in_probe_rtt(sk2) ==
            IF sk2.bbr.mode # BBR_PROBE_RTT
            THEN sk2
            ELSE probing([sk2 EXCEPT !.tp.app_limited =
                              IF sk2.tp.delivered + tcp_packets_in_flight(sk2) # 0
                              THEN sk2.tp.delivered + tcp_packets_in_flight(sk2)
                              ELSE 1])
        \* the entry into PROBE_RTT, on the socket sk1 that the min_rtt
        \* update leaves
        enter(sk1) ==
            in_probe_rtt(
                IF bbr_probe_rtt_mode_ms > 0 /\ filter_expired
                   /\ sk1.bbr.idle_restart = 0 /\ sk1.bbr.mode # BBR_PROBE_RTT
                THEN [bbr_save_cwnd(SetMode(sk1, BBR_PROBE_RTT))
                         EXCEPT !.bbr.probe_rtt_done_stamp = 0]
                ELSE sk1)
    IN  idle(enter(IF s.rtt_us >= 0
                      /\ (s.rtt_us < sk.bbr.min_rtt_us
                          \/ filter_expired)
                   THEN [sk EXCEPT !.bbr.min_rtt_us = s.rtt_us,
                                   !.bbr.min_rtt_stamp = sk.tp.jiffies]
                   ELSE sk))

bbr_update_min_rtt_during_idle_restart(sk, s) ==
    LET filter_expired ==
            after(sk.tp.jiffies,
                  sk.bbr.min_rtt_stamp + bbr_min_rtt_win_sec * HZ)
        \* "Restart after idle ends only once we process a new S/ACK for
        \* data"
        idle(sk3) ==
            IF s.delivered > 0
            THEN [sk3 EXCEPT !.bbr.idle_restart = 0]
            ELSE sk3
        \* b: the socket after "if (bbr->round_start)"
        round_done(b) ==
            IF b.bbr.probe_rtt_round_done # 0
            THEN bbr_check_probe_rtt_done(b)
            ELSE b
        \* a: the socket after "Ignore low rate samples during this mode"
        probing(a) ==
            IF a.bbr.probe_rtt_done_stamp = 0
               /\ tcp_packets_in_flight(a) <= bbr_cwnd_min_target
            THEN [a EXCEPT !.bbr.probe_rtt_done_stamp =
                               a.tp.jiffies
                               + msecs_to_jiffies(bbr_probe_rtt_mode_ms),
                           !.bbr.probe_rtt_round_done = 0,
                           !.bbr.next_rtt_delivered = a.tp.delivered]
            ELSE IF a.bbr.probe_rtt_done_stamp # 0
            THEN round_done(IF a.bbr.round_start # 0
                            THEN [a EXCEPT !.bbr.probe_rtt_round_done = 1]
                            ELSE a)
            ELSE a
        \* "if (bbr->mode == BBR_PROBE_RTT)", on the socket sk2 that the
        \* entry into PROBE_RTT leaves
        in_probe_rtt(sk2) ==
            IF sk2.bbr.mode # BBR_PROBE_RTT
            THEN sk2
            ELSE probing([sk2 EXCEPT !.tp.app_limited =
                              IF sk2.tp.delivered + tcp_packets_in_flight(sk2) # 0
                              THEN sk2.tp.delivered + tcp_packets_in_flight(sk2)
                              ELSE 1])
        \* the entry into PROBE_RTT, on the socket sk1 that the min_rtt
        \* update leaves
        enter(sk1) ==
            in_probe_rtt(
                IF bbr_probe_rtt_mode_ms > 0 /\ filter_expired
                   /\ sk1.bbr.mode # BBR_PROBE_RTT
                THEN [bbr_save_cwnd(SetMode(sk1, BBR_PROBE_RTT))
                         EXCEPT !.bbr.probe_rtt_done_stamp = 0]
                ELSE sk1)
    IN  idle(enter(IF s.rtt_us >= 0
                      /\ (s.rtt_us < sk.bbr.min_rtt_us
                          \/ (filter_expired /\ ~s.is_ack_delayed))
                   THEN [sk EXCEPT !.bbr.min_rtt_us = s.rtt_us,
                                   !.bbr.min_rtt_stamp = sk.tp.jiffies]
                   ELSE sk))

bbr_update_min_rtt(sk, s) ==
    LET filter_expired ==
            after(sk.tp.jiffies,
                  sk.bbr.min_rtt_stamp + bbr_min_rtt_win_sec * HZ)
        \* "Restart after idle ends only once we process a new S/ACK for
        \* data"
        idle(sk3) ==
            IF s.delivered > 0
            THEN [sk3 EXCEPT !.bbr.idle_restart = 0]
            ELSE sk3
        \* b: the socket after "if (bbr->round_start)"
        round_done(b) ==
            IF b.bbr.probe_rtt_round_done # 0
            THEN bbr_check_probe_rtt_done(b)
            ELSE b
        \* a: the socket after "Ignore low rate samples during this mode"
        probing(a) ==
            IF a.bbr.probe_rtt_done_stamp = 0
               /\ tcp_packets_in_flight(a) <= bbr_cwnd_min_target
            THEN [a EXCEPT !.bbr.probe_rtt_done_stamp =
                               a.tp.jiffies
                               + msecs_to_jiffies(bbr_probe_rtt_mode_ms),
                           !.bbr.probe_rtt_round_done = 0,
                           !.bbr.next_rtt_delivered = a.tp.delivered]
            ELSE IF a.bbr.probe_rtt_done_stamp # 0
            THEN round_done(IF a.bbr.round_start # 0
                            THEN [a EXCEPT !.bbr.probe_rtt_round_done = 1]
                            ELSE a)
            ELSE a
        \* "if (bbr->mode == BBR_PROBE_RTT)", on the socket sk2 that the
        \* entry into PROBE_RTT leaves
        in_probe_rtt(sk2) ==
            IF sk2.bbr.mode # BBR_PROBE_RTT
            THEN sk2
            ELSE probing([sk2 EXCEPT !.tp.app_limited =
                              IF sk2.tp.delivered + tcp_packets_in_flight(sk2) # 0
                              THEN sk2.tp.delivered + tcp_packets_in_flight(sk2)
                              ELSE 1])
        \* the entry into PROBE_RTT, on the socket sk1 that the min_rtt
        \* update leaves
        enter(sk1) ==
            in_probe_rtt(
                IF bbr_probe_rtt_mode_ms > 0 /\ filter_expired
                   /\ sk1.bbr.idle_restart = 0 /\ sk1.bbr.mode # BBR_PROBE_RTT
                THEN [bbr_save_cwnd(SetMode(sk1, BBR_PROBE_RTT))
                         EXCEPT !.bbr.probe_rtt_done_stamp = 0]
                ELSE sk1)
    IN  idle(enter(IF s.rtt_us >= 0
                      /\ (s.rtt_us < sk.bbr.min_rtt_us
                          \/ (filter_expired /\ ~s.is_ack_delayed))
                   THEN [sk EXCEPT !.bbr.min_rtt_us = s.rtt_us,
                                   !.bbr.min_rtt_stamp = sk.tp.jiffies]
                   ELSE sk))

bbr_update_gains_ignoring_lt(sk) ==
    CASE sk.bbr.mode = BBR_STARTUP ->
             [sk EXCEPT !.bbr.pacing_gain = bbr_high_gain,
                        !.bbr.cwnd_gain = bbr_high_gain]
      [] sk.bbr.mode = BBR_DRAIN ->
             [sk EXCEPT !.bbr.pacing_gain = bbr_drain_gain,
                        !.bbr.cwnd_gain = bbr_high_gain]
      [] sk.bbr.mode = BBR_PROBE_BW ->
             [sk EXCEPT !.bbr.pacing_gain = bbr_pacing_gain[sk.bbr.cycle_idx + 1],
                        !.bbr.cwnd_gain = bbr_cwnd_gain]
      [] sk.bbr.mode = BBR_PROBE_RTT ->
             [sk EXCEPT !.bbr.pacing_gain = BBR_UNIT,
                        !.bbr.cwnd_gain = BBR_UNIT]
      [] OTHER -> sk

bbr_update_gains(sk) ==
    CASE sk.bbr.mode = BBR_STARTUP ->
             [sk EXCEPT !.bbr.pacing_gain = bbr_high_gain,
                        !.bbr.cwnd_gain = bbr_high_gain]
      [] sk.bbr.mode = BBR_DRAIN ->
             [sk EXCEPT !.bbr.pacing_gain = bbr_drain_gain,
                        !.bbr.cwnd_gain = bbr_high_gain]
      [] sk.bbr.mode = BBR_PROBE_BW ->
             [sk EXCEPT !.bbr.pacing_gain =
                            IF sk.bbr.lt_use_bw # 0
                            THEN BBR_UNIT
                            ELSE bbr_pacing_gain[sk.bbr.cycle_idx + 1],
                        !.bbr.cwnd_gain = bbr_cwnd_gain]
      [] sk.bbr.mode = BBR_PROBE_RTT ->
             [sk EXCEPT !.bbr.pacing_gain = BBR_UNIT,
                        !.bbr.cwnd_gain = BBR_UNIT]
      [] OTHER -> sk

bbr_update_model(sk, s) ==
    bbr_update_gains(
     bbr_update_min_rtt(
      bbr_check_drain(
       bbr_check_full_bw_reached(
        bbr_update_cycle_phase(
         bbr_update_ack_aggregation(
          bbr_update_bw(sk, s), s), s), s), s), s))

\* sk1 is the socket after bbr_update_model(), sk2 the one after
\* bbr_set_pacing_rate(); bw is the local of that name.
bbr_main(sk, s) ==
    LET cwnd(sk2, bw) ==
            bbr_set_cwnd([sk2 EXCEPT !.obs.bw = bw], s, s.acked_sacked, bw,
                         sk2.bbr.cwnd_gain)
        pacing(sk1, bw) ==
            cwnd(bbr_set_pacing_rate(sk1, bw, sk1.bbr.pacing_gain), bw)
        model(sk1) == pacing(sk1, bbr_bw(sk1))
    IN  model(bbr_update_model(sk, s))

\* bbr_init() writes every field of struct bbr; pacing_gain and cwnd_gain are
\* the zeroes of the freshly cleared icsk_ca_priv.
\* The source assigns snd_ssthresh from "c", a name it never declares; the
\* kernel's tcp_bbr.c has TCP_INFINITE_SSTHRESH in that place.
bbr_init(sk) ==
    LET b0 == [min_rtt_us |-> sk.tp.tcp_min_rtt,
               min_rtt_stamp |-> sk.tp.jiffies,
               probe_rtt_done_stamp |-> 0,
               bw |-> minmax_reset(0, 0),
               rtt_cnt |-> 0,
               next_rtt_delivered |-> sk.tp.delivered,
               cycle_mstamp |-> 0,
               mode |-> BBR_STARTUP,
               prev_ca_state |-> TCP_CA_Open,
               packet_conservation |-> 0,
               round_start |-> 0,
               idle_restart |-> 0,
               probe_rtt_round_done |-> 0,
               lt_is_sampling |-> 0,
               lt_rtt_cnt |-> 0,
               lt_use_bw |-> 0,
               lt_bw |-> 0,
               lt_last_delivered |-> 0,
               lt_last_stamp |-> 0,
               lt_last_lost |-> 0,
               pacing_gain |-> 0,
               cwnd_gain |-> 0,
               full_bw_reached |-> 0,
               full_bw_cnt |-> 0,
               cycle_idx |-> 0,
               has_seen_rtt |-> 0,
               prior_cwnd |-> 0,
               full_bw |-> 0,
               ack_epoch_mstamp |-> sk.tp.tcp_mstamp,
               extra_acked |-> <<0, 0>>,
               ack_epoch_acked |-> 0,
               extra_acked_win_rtts |-> 0,
               extra_acked_win_idx |-> 0]
        sk1 == [sk EXCEPT !.bbr = b0,
                          !.tp.snd_ssthresh = TCP_INFINITE_SSTHRESH]
        sk2 == bbr_init_pacing_rate_from_rtt(sk1)
    IN  bbr_reset_startup_mode(bbr_reset_lt_bw_sampling(sk2))

bbr_undo_cwnd_keeping_count(sk) ==
    bbr_reset_lt_bw_sampling([sk EXCEPT !.bbr.full_bw = 0])

bbr_undo_cwnd(sk) ==
    bbr_reset_lt_bw_sampling([sk EXCEPT !.bbr.full_bw = 0,
                                        !.bbr.full_bw_cnt = 0])

bbr_ssthresh(sk) == bbr_save_cwnd(sk)

\* struct rate_sample rs = { .losses = 1 }
LossSample ==
    [delivered |-> 0, prior_delivered |-> 0, interval_us |-> 0, rtt_us |-> 0,
     losses |-> 1, acked_sacked |-> 0, prior_in_flight |-> 0,
     is_app_limited |-> FALSE, is_ack_delayed |-> FALSE]

bbr_set_state_without_round_end(sk, new_state) ==
    IF new_state = TCP_CA_Loss
    THEN bbr_lt_bw_sampling(
             [sk EXCEPT !.bbr.prev_ca_state = TCP_CA_Loss,
                        !.bbr.full_bw = 0],
             LossSample)
    ELSE sk

bbr_set_state(sk, new_state) ==
    IF new_state = TCP_CA_Loss
    THEN bbr_lt_bw_sampling(
             [sk EXCEPT !.bbr.prev_ca_state = TCP_CA_Loss,
                        !.bbr.full_bw = 0,
                        !.bbr.round_start = 1],
             LossSample)
    ELSE sk

bbr_cwnd_event_on_any_tx_start(sk, event) ==
    IF event = CA_EVENT_TX_START
    THEN LET sk1 == [sk EXCEPT !.bbr.idle_restart = 1,
                               !.bbr.ack_epoch_mstamp = sk.tp.tcp_mstamp,
                               !.bbr.ack_epoch_acked = 0]
         IN  IF sk1.bbr.mode = BBR_PROBE_BW
             THEN bbr_set_pacing_rate(sk1, bbr_bw(sk1), BBR_UNIT)
             ELSE IF sk1.bbr.mode = BBR_PROBE_RTT
             THEN bbr_check_probe_rtt_done(sk1)
             ELSE sk1
    ELSE sk

bbr_cwnd_event(sk, event) ==
    IF event = CA_EVENT_TX_START /\ sk.tp.app_limited # 0
    THEN LET sk1 == [sk EXCEPT !.bbr.idle_restart = 1,
                               !.bbr.ack_epoch_mstamp = sk.tp.tcp_mstamp,
                               !.bbr.ack_epoch_acked = 0]
         IN  IF sk1.bbr.mode = BBR_PROBE_BW
             THEN bbr_set_pacing_rate(sk1, bbr_bw(sk1), BBR_UNIT)
             ELSE IF sk1.bbr.mode = BBR_PROBE_RTT
             THEN bbr_check_probe_rtt_done(sk1)
             ELSE sk1
    ELSE sk

----------------------------------------------------------------------------
(* The transport.  A connection follows one traffic pattern env: the sets  *)
(* its ACKs and hook calls draw their inputs from.  Every pattern starts   *)
(* at bbr_init() on a fresh connection.                                    *)

MaxCalls == 7

MaxCallsLong == 70

LongGap == 10001     \* jiffies: longer than the min_rtt window

SlowGap == 200       \* jiffies between the ACKs of a slow, policed flow

Pattern(name) ==
    [name |-> name, depth |-> MaxCalls,
     dj |-> {1}, n |-> {1}, round |-> {TRUE}, interval |-> {1000},
     rtt |-> {2000}, losses |-> {0}, app |-> {FALSE}, delayed |-> {FALSE},
     ca |-> {TCP_CA_Open}, inflight |-> {2}, srtt |-> {0}, edt |-> {0},
     rnd |-> {0}, hooks |-> {}, new_state |-> {},
     clamp |-> {1000}, ceiling |-> {U32_MAX}, srtt0 |-> {16000}, mss |-> {1000}]

\* STARTUP, DRAIN, PROBE_BW and PROBE_RTT: steady delivery, with long
\* silences and a pipe that is or is not drained.
EnvModes == [Pattern("modes") EXCEPT !.depth = MaxCalls + 1,
                                     !.dj = {1, LongGap},
                                     !.inflight = {2, 40}]

EnvRecovery == [Pattern("recovery") EXCEPT !.depth = MaxCalls - 3,
                                           !.n = {0, 1},
                                           !.round = {TRUE, FALSE},
                                           !.ca = {TCP_CA_Open, TCP_CA_Recovery},
                                           !.losses = {2},
                                           !.inflight = {1, 20},
                                           !.ceiling = {500000}]

EnvPoliced == [Pattern("policed") EXCEPT !.depth = MaxCallsLong,
                                         !.dj = {SlowGap},
                                         !.interval = {500},
                                         !.losses = {1},
                                         !.rnd = 0..(bbr_cycle_rand - 1)]

EnvPolicedRto == [EnvPoliced EXCEPT !.name = "policed, with timeouts",
                                    !.depth = MaxCalls + 4,
                                    !.rnd = {0},
                                    !.new_state = {TCP_CA_Loss},
                                    !.hooks = {"bbr_set_state"}]

EnvIdle == [Pattern("idle") EXCEPT !.depth = MaxCalls - 1,
                                   !.dj = {1, LongGap},
                                   !.app = {TRUE},
                                   !.clamp = {6},
                                   !.hooks = {"bbr_cwnd_event"}]

EnvLoss == [Pattern("loss") EXCEPT !.depth = MaxCalls - 2,
                                   !.dj = {1, LongGap},
                                   !.ca = {TCP_CA_Open, TCP_CA_Loss},
                                   !.new_state = {TCP_CA_Open, TCP_CA_Loss},
                                   !.hooks = {"bbr_set_state", "bbr_ssthresh",
                                              "bbr_undo_cwnd"}]

EnvNoRtt == [Pattern("nortt") EXCEPT !.depth = MaxCalls - 2,
                                     !.srtt0 = {0},
                                     !.srtt = {0, 16000},
                                     !.rtt = {0 - 1, 2000}]

\* Delivery rates that rise and fall over more rounds than the bw filter's
\* window holds.
EnvFilter == [Pattern("filter") EXCEPT !.depth = MaxCalls + 6,
                                       !.interval = {1000, 2000, 4000}]

EnvAppLimited == [Pattern("app-limited") EXCEPT !.depth = MaxCalls - 3,
                                                !.interval = {1000, 2000},
                                                !.app = {FALSE, TRUE}]

\* Round-trip times below and above the initial min_rtt of 2000 us, some on
\* delayed ACKs, some after the min_rtt window has run out.
EnvRtt == [Pattern("rtt") EXCEPT !.depth = MaxCalls - 3,
                                 !.dj = {1, LongGap},
                                 !.rtt = {0 - 1, 1500, 3000},
                                 !.delayed = {FALSE, TRUE}]

\* ACKs that carry no valid rate sample (nothing newly delivered: delivered
\* and interval_us are -1), in every mode.
EnvInvalid == [Pattern("invalid") EXCEPT !.depth = MaxCalls - 1,
                                         !.dj = {1, LongGap},
                                         !.n = {0, 1},
                                         !.inflight = {2, 40}]

\* Loss recovery that cuts the window below the one bbr_ssthresh saved, then
\* a pause longer than the min_rtt window.
EnvRestore == [Pattern("restore") EXCEPT !.depth = MaxCalls - 3,
                                         !.dj = {1, LongGap},
                                         !.losses = {0, 2},
                                         !.ca = {TCP_CA_Open, TCP_CA_Recovery},
                                         !.hooks = {"bbr_ssthresh"}]

\* A sender that pauses and restarts once the pipe has been filled, with and
\* without the application being the limit.
EnvTxStart == [Pattern("tx start") EXCEPT !.depth = MaxCalls - 1,
                                          !.app = {FALSE, TRUE},
                                          !.hooks = {"bbr_cwnd_event"}]
\* A full pipe that drains to different depths, with and without packets
\* already scheduled for a later departure.
EnvDrain == [Pattern("drain") EXCEPT !.depth = MaxCalls - 1,
                                     !.inflight = {4, 9, 40},
                                     !.edt = {0, 2000}]

\* Gain cycling in PROBE_BW: phases that meet or miss their in-flight
\* target, with and without losses.
EnvCycle == [Pattern("cycle") EXCEPT !.depth = MaxCalls + 2,
                                     !.inflight = {2, 40},
                                     !.losses = {0, 1},
                                     !.rnd = {0, bbr_cycle_rand - 1}]
\* Recovery interrupted by a timeout and entered again, with ACKs that do and
\* do not begin a round.
EnvConserve == [Pattern("conserve") EXCEPT !.depth = MaxCalls - 3,
                                           !.round = {TRUE, FALSE},
                                           !.ca = {TCP_CA_Open, TCP_CA_Recovery,
                                                   TCP_CA_Loss},
                                           !.losses = {0, 2},
                                           !.inflight = {20}]

Envs == {EnvModes, EnvRecovery, EnvPoliced, EnvPolicedRto, EnvIdle, EnvLoss, EnvNoRtt, EnvFilter, EnvAppLimited, EnvRtt, EnvInvalid, EnvRestore, EnvTxStart, EnvDrain, EnvCycle, EnvConserve}

Host0(e, clamp, ceiling, srtt0, mss) ==
    [snd_cwnd |-> Min(TCP_INIT_CWND, clamp), snd_cwnd_clamp |-> clamp,
     snd_ssthresh |-> TCP_INFINITE_SSTHRESH,
     delivered |-> 0, lost |-> 0,
     jiffies |-> 1000, tcp_mstamp |-> 1000 * USEC_PER_MSEC,
     delivered_mstamp |-> 1000 * USEC_PER_MSEC,
     srtt_us |-> srtt0,
     tcp_min_rtt |-> IF srtt0 = 0 THEN U32_MAX ELSE srtt0 \div 8,
     mss_cache |-> mss, app_limited |-> 0, packets_in_flight |-> 0,
     icsk_ca_state |-> TCP_CA_Open,
     sk_pacing_rate |-> 0, sk_max_pacing_rate |-> ceiling,
     edt_us |-> 0, prandom |-> 0]

Sock == [bbr |-> bbr, tp |-> tp, obs |-> NoObs]

\* The socket after the call: the random number is consumed.
Becomes(sk, name, s) ==
    /\ bbr' = sk.bbr
    /\ tp' = [sk.tp EXCEPT !.prandom = 0]
    /\ obs' = sk.obs
    /\ op' = name
    /\ rs' = s
    /\ calls' = calls + 1
    /\ env' = env

UsedRandom(sk) == \E i \in 1..Len(sk.obs.modes) : sk.obs.modes[i] = BBR_PROBE_BW

Init ==
    /\ env \in Envs
    /\ \E clamp \in env.clamp, ceiling \in env.ceiling, srtt0 \in env.srtt0,
          mss \in env.mss :
         \E sk \in {bbr_init([bbr |-> [mode |-> BBR_STARTUP], obs |-> NoObs,
                               tp |-> Host0(env, clamp, ceiling, srtt0, mss)])} :
             /\ bbr = sk.bbr
             /\ tp = sk.tp
             /\ obs = sk.obs
    /\ op = "bbr_init"
    /\ rs = LossSample
    /\ calls = 0

\* The transport's own processing of an ACK, before it calls cong_control.
HostAck(sk, dj, n, l, ca, infl, srtt, edt, rnd) ==
    LET now == sk.tp.jiffies + dj
    IN  [sk EXCEPT !.tp.jiffies = now,
                   !.tp.tcp_mstamp = now * USEC_PER_MSEC,
                   !.tp.delivered = @ + n,
                   !.tp.delivered_mstamp =
                       IF n > 0 THEN now * USEC_PER_MSEC ELSE @,
                   !.tp.lost = @ + l,
                   !.tp.icsk_ca_state = ca,
                   !.tp.packets_in_flight = infl,
                   !.tp.srtt_us = IF srtt # 0 THEN srtt ELSE @,
                   !.tp.edt_us = edt,
                   !.tp.prandom = rnd]

\* The rate sample of an ACK that newly delivers n packets; round says
\* whether the oldest of them was sent after the current round began.
Sample(sk, n, round, iv, rtt, l, app, del, infl) ==
    LET prior == IF round \/ sk.bbr.next_rtt_delivered = 0
                 THEN sk.bbr.next_rtt_delivered
                 ELSE sk.bbr.next_rtt_delivered - 1
    IN  [delivered |-> IF n > 0 THEN sk.tp.delivered + n - prior ELSE 0 - 1,
         prior_delivered |-> IF n > 0 THEN prior ELSE 0,
         interval_us |-> IF n > 0 THEN iv ELSE 0 - 1,
         rtt_us |-> rtt, losses |-> l, acked_sacked |-> n,
         prior_in_flight |-> infl + n,
         is_app_limited |-> app, is_ack_delayed |-> del]

BbrMain ==
    /\ calls < env.depth
    /\ \E dj \in env.dj, n \in env.n, round \in env.round,
          iv \in env.interval, rtt \in env.rtt, l \in env.losses,
          app \in env.app, del \in env.delayed, ca \in env.ca,
          infl \in env.inflight, srtt \in env.srtt, edt \in env.edt,
          rnd \in env.rnd :
         \E s \in {Sample(Sock, n, round, iv, rtt, l, app, del, infl)} :
         \E sk \in {bbr_main(HostAck(Sock, dj, n, l, ca, infl, srtt, edt, rnd),
                              s)} :
             /\ rnd = 0 \/ UsedRandom(sk)
             /\ Becomes(sk, "bbr_main", s)

BbrCwndEvent ==
    /\ calls < env.depth
    /\ "bbr_cwnd_event" \in env.hooks
    /\ \E event \in {CA_EVENT_TX_START, CA_EVENT_CWND_RESTART},
          dj \in env.dj, app \in env.app, rnd \in env.rnd :
         \E sk \in {bbr_cwnd_event(
                       [Sock EXCEPT !.tp.jiffies = tp.jiffies + dj,
                                    !.tp.tcp_mstamp =
                                        (tp.jiffies + dj) * USEC_PER_MSEC,
                                    !.tp.app_limited =
                                        IF app THEN Max(@, 1) ELSE 0,
                                    !.tp.prandom = rnd,
                                    !.obs.event = event],
                       event)} :
             /\ rnd = 0 \/ UsedRandom(sk)
             /\ Becomes(sk, "bbr_cwnd_event", rs)

BbrSetState ==
    /\ calls < env.depth
    /\ "bbr_set_state" \in env.hooks
    /\ \E new_state \in env.new_state, rnd \in env.rnd :
         \E sk \in {bbr_set_state([Sock EXCEPT !.tp.prandom = rnd],
                                   new_state)} :
             /\ rnd = 0 \/ UsedRandom(sk)
             /\ Becomes([sk EXCEPT !.tp.icsk_ca_state = new_state],
                        "bbr_set_state", rs)

BbrSsthresh ==
    /\ calls < env.depth
    /\ "bbr_ssthresh" \in env.hooks
    /\ Becomes(bbr_ssthresh(Sock), "bbr_ssthresh", rs)

BbrUndoCwnd ==
    /\ calls < env.depth
    /\ "bbr_undo_cwnd" \in env.hooks
    /\ Becomes(bbr_undo_cwnd(Sock), "bbr_undo_cwnd", rs)

Next ==
    \/ BbrMain
    \/ BbrCwndEvent
    \/ BbrSetState
    \/ BbrSsthresh
    \/ BbrUndoCwnd

Spec == Init /\ [][Next]_vars

\* The end of a long-term sampling interval on a fast path: interval rates
\* from a few packets per second up to more than one packet per microsecond
\* (BW_UNIT), with the smallest segment size; bbr_undo_cwnd discards what
\* the sampler has learned.
EnvLt == [Pattern("lt") EXCEPT !.mss = {88},
                               !.hooks = {"bbr_undo_cwnd"}]

LtRates == {10, 12, BW_UNIT \div 4, BW_UNIT \div 4 + BW_UNIT \div 32,
            BW_UNIT \div 4 + BW_UNIT \div 16, BW_UNIT \div 4 + BW_UNIT}

InitLt ==
    /\ env = EnvLt
    /\ \E clamp \in env.clamp, ceiling \in env.ceiling, srtt0 \in env.srtt0,
          mss \in env.mss :
         \E sk \in {bbr_init([bbr |-> [mode |-> BBR_STARTUP], obs |-> NoObs,
                               tp |-> Host0(env, clamp, ceiling, srtt0, mss)])} :
             /\ bbr = sk.bbr
             /\ tp = sk.tp
             /\ obs = sk.obs
    /\ op = "bbr_init"
    /\ rs = LossSample
    /\ calls = 0

\* bbr_lt_bw_sampling() reaches the end of an interval whose rate is bw.
BbrLtBwIntervalDone ==
    /\ calls < env.depth
    /\ bbr.lt_use_bw = 0
    /\ \E bw \in LtRates :
         \E sk \in {bbr_lt_bw_interval_done(
                       [Sock EXCEPT !.bbr.lt_is_sampling = 1, !.obs.bw = bw],
                       bw)} :
             Becomes(sk, "bbr_lt_bw_interval_done", rs)

NextLt ==
    \/ BbrLtBwIntervalDone
    \/ BbrUndoCwnd

SpecLt == InitLt /\ [][NextLt]_vars

\* Ack aggregation on a long fat path: a window of a hundred thousand
\* packets or of a hundred, a measured rate of ten packets per millisecond,
\* and cumulative ACKs that cover one packet or forty thousand.
EnvAgg == [Pattern("agg") EXCEPT !.depth = MaxCalls - 3,
                                 !.dj = {1, 50},
                                 !.n = {1, 40000},
                                 !.round = {TRUE, FALSE},
                                 !.app = {TRUE},
                                 !.hooks = {"bbr_cwnd_event"},
                                 !.clamp = {100, 100000}]

InitAgg ==
    /\ env = EnvAgg
    /\ \E clamp \in env.clamp, ceiling \in env.ceiling, srtt0 \in env.srtt0,
          mss \in env.mss :
         \E sk \in {bbr_init([bbr |-> [mode |-> BBR_STARTUP], obs |-> NoObs,
                               tp |-> Host0(env, clamp, ceiling, srtt0, mss)])} :
             /\ bbr = [sk.bbr EXCEPT !.bw = minmax_reset(0, BW_UNIT \div 100)]
             /\ tp = [sk.tp EXCEPT !.snd_cwnd = clamp]
             /\ obs = sk.obs
    /\ op = "bbr_init"
    /\ rs = LossSample
    /\ calls = 0

\* bbr_update_model() reaches bbr_update_ack_aggregation() with the sample
\* of an ACK that arrives dj jiffies after the previous one.
BbrUpdateAckAggregation ==
    /\ calls < env.depth
    /\ \E dj \in env.dj, n \in env.n, round \in env.round,
          iv \in env.interval :
         \E s \in {[LossSample EXCEPT !.delivered = n, !.interval_us = iv,
                                      !.losses = 0, !.acked_sacked = n]} :
         \E sk \in {bbr_update_ack_aggregation(
                       [Sock EXCEPT !.tp.jiffies = @ + dj,
                                    !.tp.tcp_mstamp =
                                        (tp.jiffies + dj) * USEC_PER_MSEC,
                                    !.tp.delivered_mstamp =
                                        (tp.jiffies + dj) * USEC_PER_MSEC,
                                    !.tp.delivered = @ + n,
                                    !.bbr.round_start =
                                        IF round THEN 1 ELSE 0],
                       s)} :
             Becomes(sk, "bbr_update_ack_aggregation", s)

NextAgg ==
    \/ BbrUpdateAckAggregation
    \/ BbrCwndEvent

SpecAgg == InitAgg /\ [][NextAgg]_vars

\* The PROBE_RTT lifecycle under samples that keep arriving: the clock
\* advances by the PROBE_RTT time or by more than the min_rtt window, the
\* pipe is or is not drained, and a sample does or does not begin a round.
EnvProbeRtt == [Pattern("probe_rtt") EXCEPT
                   !.dj = {msecs_to_jiffies(bbr_probe_rtt_mode_ms),
                           bbr_min_rtt_win_sec * HZ + 1},
                   !.inflight = {2, 9},
                   !.round = {TRUE, FALSE},
                   !.rtt = {2000}]

\* A fresh connection in STARTUP, or one that has found its pipe full and
\* cycles in PROBE_BW.
InitProbeRtt ==
    /\ env = EnvProbeRtt
    /\ \E clamp \in env.clamp, ceiling \in env.ceiling, srtt0 \in env.srtt0,
          mss \in env.mss, full \in {0, 1} :
         \E sk0 \in {bbr_init([bbr |-> [mode |-> BBR_STARTUP], obs |-> NoObs,
                                tp |-> Host0(env, clamp, ceiling, srtt0, mss)])} :
         \E sk \in {IF full = 0 THEN sk0
                    ELSE bbr_reset_mode([sk0 EXCEPT !.bbr.full_bw_reached = 1])} :
             /\ bbr = sk.bbr
             /\ tp = sk.tp
             /\ obs = NoObs
    /\ op = "bbr_init"
    /\ rs = LossSample
    /\ calls = 0

\* The code reads tcp_jiffies32 only through after() and sums with it, so
\* the clock is measured from the current ACK: the stamps move back by what
\* the clock advanced, a min_rtt_stamp older than the window and a
\* probe_rtt_done_stamp already passed stay so, and 0 stays "not set".
Rebase(sk, origin) ==
    LET shift == sk.tp.jiffies - origin
    IN  [sk EXCEPT !.tp.jiffies = origin,
                   !.bbr.min_rtt_stamp =
                       Max(@ - shift, origin - bbr_min_rtt_win_sec * HZ - 1),
                   !.bbr.probe_rtt_done_stamp =
                       IF @ = 0 THEN 0 ELSE Max(@ - shift, origin - 1)]

\* bbr_update_model() reaches bbr_update_min_rtt() with the sample of an ACK
\* that arrives dj jiffies after the previous one and leaves infl packets in
\* flight; round says whether bbr_update_bw() found a round start. Calls are
\* not counted: samples keep arriving.
ProbeRttAck(infl, round) ==
    \E dj \in env.dj, rtt \in env.rtt :
        \E s \in {[LossSample EXCEPT !.delivered = 1,
                                     !.interval_us = dj * USEC_PER_MSEC,
                                     !.rtt_us = rtt, !.losses = 0,
                                     !.acked_sacked = 1,
                                     !.prior_in_flight = infl + 1]} :
            /\ rs' = s
            /\ \E sk0 \in {[Sock EXCEPT !.tp.jiffies = @ + dj,
                                         !.tp.packets_in_flight = infl,
                                         !.bbr.round_start =
                                             IF round THEN 1 ELSE 0]} :
               \E sk1 \in {bbr_update_min_rtt(sk0, s)} :
               \E sk \in {Rebase(sk1, tp.jiffies)} :
                   /\ bbr' = sk.bbr
                   /\ tp' = sk.tp
                   /\ obs' = sk.obs
            /\ op' = "bbr_update_min_rtt"
            /\ env' = env
            /\ calls' = calls

\* A sample with at most bbr_cwnd_min_target packets in flight.
SampleDrained ==
    \E infl \in {i \in env.inflight : i <= bbr_cwnd_min_target},
       round \in env.round : ProbeRttAck(infl, round)

\* A sample with more packets in flight.
SampleBusy ==
    \E infl \in {i \in env.inflight : i > bbr_cwnd_min_target},
       round \in env.round : ProbeRttAck(infl, round)

\* A sample that begins a round.
SampleRound == \E infl \in env.inflight : ProbeRttAck(infl, TRUE)

NextProbeRtt ==
    \/ SampleDrained
    \/ SampleBusy

\* Samples keep arriving, drained ones and ones that begin a round among
\* them.
SpecProbeRtt ==
    /\ InitProbeRtt
    /\ [][NextProbeRtt]_vars
    /\ WF_vars(SampleDrained)
    /\ WF_vars(SampleRound)


----------------------------------------------------------------------------
(* Properties.                                                             *)

\* An edge of the state transition diagram; full is full_bw_reached at
\* the time of the move.
Edge(a, b, full) ==
    \/ a = b
    \/ a = BBR_STARTUP /\ b = BBR_DRAIN
    \/ a = BBR_DRAIN /\ b = BBR_PROBE_BW
    \/ a \in {BBR_STARTUP, BBR_DRAIN, BBR_PROBE_BW} /\ b = BBR_PROBE_RTT
    \/ a = BBR_PROBE_RTT /\ b = BBR_STARTUP /\ full = 0
    \/ a = BBR_PROBE_RTT /\ b = BBR_PROBE_BW /\ full = 1

\* The modes a call passes through, starting with the mode it found.
Path(before_mode, assigned) == <<before_mode>> \o assigned

\* C1: every change of mode made by any call follows an edge of the
\* diagram; a call may compose edges, PROBE_RTT exits to STARTUP only with
\* full_bw_reached false and to PROBE_BW only with full_bw_reached true.
C1_ModeEdges ==
    [][LET p == Path(bbr.mode, obs'.modes)
       IN  /\ bbr'.mode = p[Len(p)]
           /\ \A i \in 1..(Len(p) - 1) :
                 Edge(p[i], p[i + 1], bbr'.full_bw_reached)]_vars

\* A call left PROBE_RTT for STARTUP, after another had entered it.
C1_Witness ==
    /\ obs.modes = <<BBR_STARTUP>>
    /\ op # "bbr_init"
    /\ bbr.full_bw_reached = 0

C3_ProbeRttCap ==
    (bbr.mode = BBR_PROBE_RTT /\ op # "bbr_undo_cwnd")
        => /\ tp.snd_cwnd <= bbr_cwnd_min_target
           /\ bbr.pacing_gain = BBR_UNIT
           /\ bbr.cwnd_gain = BBR_UNIT

\* A hook ran while the connection was in PROBE_RTT.
C3_Witness ==
    /\ bbr.mode = BBR_PROBE_RTT
    /\ op \in {"bbr_ssthresh", "bbr_set_state", "bbr_cwnd_event"}
    /\ bbr.probe_rtt_done_stamp # 0

\* C4: no call other than undo_cwnd takes full_bw_reached from true to
\* false.
C4_FullBwMonotone ==
    [][(bbr.full_bw_reached = 1 /\ op' # "bbr_undo_cwnd")
          => bbr'.full_bw_reached = 1]_vars

\* A round started, on a sample that is not application limited, in a
\* call that found the pipe already full.
C4_Witness ==
    /\ bbr.full_bw_reached = 1
    /\ op = "bbr_main"
    /\ obs.modes = <<>>
    /\ bbr.mode = BBR_PROBE_BW
    /\ bbr.round_start = 1
    /\ ~rs.is_app_limited


\* The last call entered PROBE_BW (bbr_reset_probe_bw_mode ran in it and
\* the call ended in that mode).
EnteredProbeBw ==
    /\ obs.modes # <<>>
    /\ obs.modes[Len(obs.modes)] = BBR_PROBE_BW
    /\ bbr.mode = BBR_PROBE_BW

C6_PacingCeiling == tp.sk_pacing_rate <= tp.sk_max_pacing_rate

\* A call's rate was cut down to a ceiling the host had set.
C6_Witness ==
    /\ op = "bbr_main"
    /\ tp.sk_max_pacing_rate < U32_MAX
    /\ tp.sk_pacing_rate = tp.sk_max_pacing_rate

\* C7: a bbr_main or cwnd_event call that returns with full_bw_reached
\* false never lowers sk_pacing_rate.
C7_NoWalkBack ==
    [][(op' \in {"bbr_main", "bbr_cwnd_event"} /\ bbr'.full_bw_reached = 0)
          => tp'.sk_pacing_rate >= tp.sk_pacing_rate]_vars

\* C7 as the code has it: the same, except in the one call that first
\* sees a smoothed RTT (has_seen_rtt turning 1), where the rate is set
\* anew from that RTT.
C7_NoWalkBackOnceRttSeen ==
    [][(/\ op' \in {"bbr_main", "bbr_cwnd_event"}
        /\ bbr'.full_bw_reached = 0
        /\ bbr.has_seen_rtt = bbr'.has_seen_rtt)
          => tp'.sk_pacing_rate >= tp.sk_pacing_rate]_vars

\* Before the pipe is full, the rate stands above what the current
\* estimate and gain would give: a lower estimate did not lower it.
C7_Witness ==
    /\ op = "bbr_main"
    /\ bbr.full_bw_reached = 0
    /\ bbr.has_seen_rtt = 1
    /\ bbr_max_bw(Sock) > 0
    /\ tp.sk_pacing_rate > bbr_bw_to_pacing_rate(Sock, bbr_bw(Sock), bbr.pacing_gain)

\* C8: snd_cwnd <= snd_cwnd_clamp after every bbr_main call and after a
\* cwnd_event call, the TX_START that restores cwnd on leaving PROBE_RTT
\* included.
C8_CwndClamp ==
    op \in {"bbr_init", "bbr_main", "bbr_cwnd_event"}
        => tp.snd_cwnd <= tp.snd_cwnd_clamp

\* A TX_START left PROBE_RTT and restored the cwnd saved on entry, which
\* was at the clamp.
C8_Witness ==
    /\ op = "bbr_cwnd_event"
    /\ obs.modes # <<>>
    /\ bbr.mode # BBR_PROBE_RTT
    /\ tp.snd_cwnd = tp.snd_cwnd_clamp
    /\ tp.snd_cwnd > bbr_cwnd_min_target


\* C9: the bandwidth a bbr_main call uses for its outputs is lt_bw when
\* lt_use_bw is set and the windowed maximum otherwise, and the pacing
\* rate it writes and the target cwnd it computes come from that value.
C9_BwSource ==
    op = "bbr_main" =>
        LET src == IF bbr.lt_use_bw = 1 THEN bbr.lt_bw ELSE minmax_get(bbr.bw)
        IN  /\ obs.bw = src
            /\ bbr.full_bw_reached = 1 =>
                   tp.sk_pacing_rate =
                       bbr_bw_to_pacing_rate(Sock, src, bbr.pacing_gain)
            /\ obs.target_cwnd # 0 =>
                   obs.target_cwnd =
                       bbr_quantization_budget(Sock,
                           bbr_bdp(Sock, src, bbr.cwnd_gain)
                           + bbr_ack_aggregation_cwnd(Sock))

\* A bbr_main call computed its outputs with lt_use_bw set while the
\* filter held a different value.
C9_Witness ==
    /\ op = "bbr_main"
    /\ bbr.lt_use_bw = 1
    /\ bbr.lt_bw # minmax_get(bbr.bw)
    /\ bbr.full_bw_reached = 1
    /\ obs.target_cwnd # 0

\* The long-term state as bbr_reset_lt_bw_sampling leaves it.
LtReset(b) ==
    /\ b.lt_bw = 0
    /\ b.lt_use_bw = 0
    /\ b.lt_is_sampling = 0
    /\ b.lt_rtt_cnt = 0

\* C10: while lt_use_bw is set, lt_rtt_cnt stays below 48 and grows by
\* one exactly on a round start met in PROBE_BW; the 48th such round start
\* resets the long-term state and restarts gain cycling at a fresh phase;
\* round starts met in other modes leave the count alone.
C10_LtExpiry ==
    [][bbr.lt_use_bw = 1 =>
          /\ bbr.lt_rtt_cnt < bbr_lt_bw_max_rtts
          /\ \/ /\ bbr'.lt_use_bw = 1
                /\ bbr'.lt_bw = bbr.lt_bw
                /\ bbr'.lt_rtt_cnt = bbr.lt_rtt_cnt
                /\ ~(/\ op' = "bbr_main"
                     /\ bbr.mode = BBR_PROBE_BW
                     /\ bbr'.round_start = 1)
             \/ /\ bbr'.lt_use_bw = 1
                /\ bbr'.lt_bw = bbr.lt_bw
                /\ bbr'.lt_rtt_cnt = bbr.lt_rtt_cnt + 1
                /\ bbr'.lt_rtt_cnt < bbr_lt_bw_max_rtts
                /\ bbr.mode = BBR_PROBE_BW
                /\ bbr'.round_start = 1
             \/ /\ bbr.lt_rtt_cnt = bbr_lt_bw_max_rtts - 1
                /\ bbr.mode = BBR_PROBE_BW
                /\ bbr'.round_start = 1
                /\ LtReset(bbr')
                /\ obs'.modes # <<>>
                /\ obs'.modes[1] = BBR_PROBE_BW
                /\ bbr'.cycle_mstamp = tp'.delivered_mstamp
             \/ /\ op' = "bbr_undo_cwnd"
                /\ LtReset(bbr')]_vars

\* A lossy, valid sample found lt_use_bw set and ended with the long-term
\* state reset and PROBE_BW re-entered: the 48th round start.
C10_Witness ==
    /\ op = "bbr_main"
    /\ rs.losses > 0
    /\ rs.delivered > 0
    /\ ~rs.is_app_limited
    /\ LtReset(bbr)
    /\ bbr.lt_last_delivered = tp.delivered
    /\ obs.modes = <<BBR_PROBE_BW>>

\* C11: after every bbr_main call the gains are those of the mode: STARTUP
\* paces and sizes the window with high_gain (739); DRAIN paces with drain_gain
\* (88) and keeps cwnd_gain = high_gain; PROBE_BW has cwnd_gain = 2 * BBR_UNIT
\* and paces with bbr_pacing_gain[cycle_idx], or with BBR_UNIT while lt_use_bw
\* is set.
C11_GainsMatchMode ==
    op = "bbr_main" =>
        /\ bbr.mode = BBR_STARTUP =>
               bbr.pacing_gain = 739 /\ bbr.cwnd_gain = 739
        /\ bbr.mode = BBR_DRAIN =>
               bbr.pacing_gain = 88 /\ bbr.cwnd_gain = 739
        /\ bbr.mode = BBR_PROBE_BW =>
               /\ bbr.cwnd_gain = 2 * BBR_UNIT
               /\ bbr.pacing_gain = IF bbr.lt_use_bw = 1
                                    THEN BBR_UNIT
                                    ELSE bbr_pacing_gain[bbr.cycle_idx + 1]

\* A policed flow in a PROBE_BW phase whose table gain is not 1.
C11_Witness ==
    /\ op = "bbr_main"
    /\ bbr.mode = BBR_PROBE_BW
    /\ bbr.lt_use_bw = 1
    /\ bbr_pacing_gain[bbr.cycle_idx + 1] # BBR_UNIT

\* C12: an entry into PROBE_BW is an assignment of BBR_PROBE_BW to mode
\* (bbr_reset_probe_bw_mode, which draws the phase).  In a call that starts and
\* ends in PROBE_BW and assigns no mode, cycle_idx either stays, together with
\* cycle_mstamp, or becomes (cycle_idx + 1) mod 8 with cycle_mstamp set to the
\* current delivered_mstamp; and while the mode stays PROBE_BW cycle_mstamp
\* never decreases.
C12_CycleAdvance ==
    [][(bbr.mode = BBR_PROBE_BW /\ bbr'.mode = BBR_PROBE_BW) =>
          /\ bbr'.cycle_mstamp >= bbr.cycle_mstamp
          /\ obs'.modes = <<>> =>
                \/ /\ bbr'.cycle_idx = bbr.cycle_idx
                   /\ bbr'.cycle_mstamp = bbr.cycle_mstamp
                \/ /\ bbr'.cycle_idx = (bbr.cycle_idx + 1) % CYCLE_LEN
                   /\ bbr'.cycle_mstamp = tp'.delivered_mstamp]_vars

\* The phase wrapped from 7 to 0 in this call: cycle_mstamp is the stamp of
\* the delivery this ACK reported.
C12_Witness ==
    /\ op = "bbr_main"
    /\ bbr.mode = BBR_PROBE_BW
    /\ obs.modes = <<>>
    /\ rs.acked_sacked > 0
    /\ bbr.cycle_idx = 0
    /\ bbr.cycle_mstamp = tp.delivered_mstamp

\* The sample of this bbr_main call begins a round: it is a valid observation
\* and its prior_delivered is not before the next_rtt_delivered the call found.
RoundBegins ==
    /\ rs'.delivered >= 0
    /\ rs'.interval_us > 0
    /\ rs'.prior_delivered >= bbr.next_rtt_delivered

EntersRecovery ==
    /\ rs'.acked_sacked > 0
    /\ tp'.icsk_ca_state = TCP_CA_Recovery
    /\ bbr.prev_ca_state # TCP_CA_Recovery

SampleBw == (rs'.delivered * BW_UNIT) \div rs'.interval_us

FeedsFilter ==
    /\ rs'.delivered >= 0
    /\ rs'.interval_us > 0
    /\ ~rs'.is_app_limited \/ SampleBw >= minmax_get(bbr.bw)

\* C14: after a bbr_main call that feeds a sample to the bw filter the
\* windowed max is at least the sample's bw, it carries a round stamp no older
\* than 10 rounds, and each of the three candidates is the sample just fed or
\* a candidate the filter held before (so, from the initial zeroes on, always a
\* fed sample); every other call leaves the filter as it was.
C14_MaxFilter ==
    [][IF op' = "bbr_main" /\ FeedsFilter
       THEN /\ minmax_get(bbr'.bw) >= SampleBw
            /\ bbr'.rtt_cnt - bbr'.bw[1].t <= bbr_bw_rtts
            /\ \A i \in 1..3 :
                   \/ bbr'.bw[i] = [t |-> bbr'.rtt_cnt, v |-> SampleBw]
                   \/ \E j \in 1..3 : bbr'.bw[i] = bbr.bw[j]
       ELSE bbr'.bw = bbr.bw]_vars

\* The best sample aged out of the window: the max is now a smaller sample,
\* fed exactly 10 rounds ago and still above the one just fed.
C14_Witness ==
    /\ op = "bbr_main"
    /\ bbr.rtt_cnt - bbr.bw[1].t = bbr_bw_rtts
    /\ bbr.bw[1].t > 1
    /\ minmax_get(bbr.bw) > (rs.delivered * BW_UNIT) \div rs.interval_us

\* C15: after a bbr_main call whose sample has rtt_us >= 0, min_rtt_us is at
\* most that rtt_us; min_rtt_us grows only on a sample that is not
\* ack-delayed and arrives more than 10 seconds after min_rtt_stamp; a sample
\* with rtt_us < 0 leaves min_rtt_us as it was, and so does every other call.
C15_MinRtt ==
    [][IF op' = "bbr_main"
       THEN /\ rs'.rtt_us >= 0 => bbr'.min_rtt_us <= rs'.rtt_us
            /\ bbr'.min_rtt_us > bbr.min_rtt_us =>
                  /\ after(tp'.jiffies,
                           bbr.min_rtt_stamp + bbr_min_rtt_win_sec * HZ)
                  /\ ~rs'.is_ack_delayed
            /\ rs'.rtt_us < 0 => bbr'.min_rtt_us = bbr.min_rtt_us
       ELSE bbr'.min_rtt_us = bbr.min_rtt_us]_vars

\* min_rtt_us was raised by this call, from at most 2000 us (bbr_init) to
\* the sample's 3000 us.
C15_Witness ==
    /\ op = "bbr_main"
    /\ rs.rtt_us = 3000
    /\ ~rs.is_ack_delayed
    /\ bbr.min_rtt_us = 3000
    /\ bbr.min_rtt_stamp = tp.jiffies

\* The sample of this bbr_main call is not a valid observation.
InvalidSample == rs'.interval_us <= 0 \/ rs'.delivered < 0

\* C16: a bbr_main call on a sample with interval_us <= 0 or delivered < 0
\* leaves mode as it found it.
C16_InvalidKeepsMode ==
    [][(op' = "bbr_main" /\ InvalidSample) => bbr'.mode = bbr.mode]_vars

\* C16, as the code has it: on an invalid sample bbr_main leaves the bw
\* filter, the round count and the full-pipe estimate alone and never goes
\* from STARTUP to DRAIN, but the mode changes that the clock and the flight
\* size drive still happen: DRAIN ends, PROBE_RTT is entered once the min_rtt
\* window has run out (idle_restart = 0), and a PROBE_RTT whose round and
\* 200 ms are done ends.
C16_InvalidKeepsModel ==
    [][(op' = "bbr_main" /\ InvalidSample) =>
          /\ bbr'.bw = bbr.bw
          /\ bbr'.rtt_cnt = bbr.rtt_cnt
          /\ bbr'.full_bw = bbr.full_bw
          /\ bbr'.full_bw_cnt = bbr.full_bw_cnt
          /\ bbr'.full_bw_reached = bbr.full_bw_reached
          /\ LET p == Path(bbr.mode, obs'.modes)
             IN  \A i \in 1..(Len(p) - 1) :
                     \/ p[i] = BBR_DRAIN /\ p[i + 1] = BBR_PROBE_BW
                     \/ /\ p[i] # BBR_PROBE_RTT
                        /\ p[i + 1] = BBR_PROBE_RTT
                        /\ bbr.idle_restart = 0
                        /\ after(tp'.jiffies,
                                 bbr.min_rtt_stamp + bbr_min_rtt_win_sec * HZ)
                     \/ /\ i = 1
                        /\ p[i] = BBR_PROBE_RTT
                        /\ p[i + 1] \in {BBR_STARTUP, BBR_PROBE_BW}
                        /\ bbr.probe_rtt_round_done = 1
                        /\ bbr.probe_rtt_done_stamp # 0
                        /\ after(tp'.jiffies, bbr.probe_rtt_done_stamp)]_vars

\* An ACK without a valid rate sample ended DRAIN.
C16_Witness ==
    /\ op = "bbr_main"
    /\ rs.interval_us <= 0
    /\ rs.delivered < 0
    /\ obs.modes = <<BBR_PROBE_BW>>
    /\ bbr.full_bw_reached = 1
    /\ bbr.lt_use_bw = 0
    /\ bbr.rtt_cnt > 0

\* This call finds the connection in PROBE_RTT and leaves it in another mode.
LeavesProbeRtt == bbr.mode = BBR_PROBE_RTT /\ bbr'.mode # BBR_PROBE_RTT

\* C17: PROBE_RTT is left only with probe_rtt_done_stamp set, the clock past
\* it, and probe_rtt_round_done = 1, whichever call leaves it.
C17_ExitNeedsRound ==
    [][LeavesProbeRtt =>
          /\ bbr.probe_rtt_done_stamp # 0
          /\ after(tp'.jiffies, bbr.probe_rtt_done_stamp)
          /\ bbr'.probe_rtt_round_done = 1]_vars

\* What the code does keep of C17: PROBE_RTT is left only by bbr_main or by
\* bbr_cwnd_event, with probe_rtt_done_stamp set and the clock past it;
\* bbr_main also needs probe_rtt_round_done = 1, the TX_START hook does not.
C17_ExitNeedsTime ==
    [][LeavesProbeRtt =>
          /\ op' \in {"bbr_main", "bbr_cwnd_event"}
          /\ bbr.probe_rtt_done_stamp # 0
          /\ after(tp'.jiffies, bbr.probe_rtt_done_stamp)
          /\ op' = "bbr_main" => bbr'.probe_rtt_round_done = 1]_vars

\* The TX_START hook ended a PROBE_RTT in which no round had passed.
C17_Witness ==
    /\ op = "bbr_cwnd_event"
    /\ Len(obs.modes) = 1
    /\ bbr.mode # BBR_PROBE_RTT
    /\ bbr.probe_rtt_done_stamp # 0
    /\ bbr.probe_rtt_round_done = 0
    /\ bbr.min_rtt_stamp = tp.jiffies

\* This bbr_main call finds the connection outside PROBE_RTT and leaves it in
\* PROBE_RTT.
EntersProbeRtt ==
    op' = "bbr_main" /\ bbr.mode # BBR_PROBE_RTT /\ bbr'.mode = BBR_PROBE_RTT

\* C18: on entry to PROBE_RTT prior_cwnd becomes the snd_cwnd of that moment
\* (nothing in bbr_main writes snd_cwnd before bbr_update_min_rtt), whatever
\* prior_cwnd was.
C18_EntrySavesCwnd ==
    [][EntersProbeRtt => bbr'.prior_cwnd = tp.snd_cwnd]_vars

\* What the code does on entry: mode is already BBR_PROBE_RTT when
\* bbr_save_cwnd runs, so prior_cwnd becomes max(prior_cwnd, snd_cwnd).
C18_EntryKeepsLargerCwnd ==
    [][EntersProbeRtt =>
          bbr'.prior_cwnd = Max(bbr.prior_cwnd, tp.snd_cwnd)]_vars

\* C19: a bbr_main call enters PROBE_RTT exactly when it finds mode other than
\* PROBE_RTT, idle_restart = 0 and the clock more than 10 seconds past the
\* min_rtt_stamp it found (before this sample refreshes it).  The entry
\* clears probe_rtt_done_stamp: after the call it is 0, or, when at most 4
\* packets are in flight, the fresh jiffies + 200 ms.  With idle_restart = 1
\* the call never enters.
C19_ProbeRttEntry ==
    [][op' = "bbr_main" =>
          /\ EntersProbeRtt <=>
                /\ bbr.mode # BBR_PROBE_RTT
                /\ bbr.idle_restart = 0
                /\ after(tp'.jiffies,
                         bbr.min_rtt_stamp + bbr_min_rtt_win_sec * HZ)
          /\ EntersProbeRtt =>
                bbr'.probe_rtt_done_stamp =
                    IF tp'.packets_in_flight <= bbr_cwnd_min_target
                    THEN tp'.jiffies + msecs_to_jiffies(bbr_probe_rtt_mode_ms)
                    ELSE 0]_vars

\* PROBE_RTT entered with more than 4 packets in flight: probe_rtt_done_stamp
\* is 0 after the call.
C19_Witness ==
    /\ op = "bbr_main"
    /\ bbr.mode = BBR_PROBE_RTT
    /\ obs.modes # <<>>
    /\ bbr.probe_rtt_done_stamp = 0
    /\ tp.packets_in_flight > bbr_cwnd_min_target

\* C20: every call that leaves PROBE_RTT sets min_rtt_stamp to the current
\* jiffies, assigns max(snd_cwnd, prior_cwnd) to snd_cwnd (in bbr_main the
\* window then goes on through bbr_set_cwnd; after the TX_START hook it is
\* the connection's snd_cwnd), and goes to STARTUP if full_bw_reached is 0,
\* to PROBE_BW otherwise.
C20_ProbeRttExit ==
    [][LeavesProbeRtt =>
          /\ bbr'.min_rtt_stamp = tp'.jiffies
          /\ obs'.exit_cwnd = Max(tp.snd_cwnd, bbr.prior_cwnd)
          /\ op' = "bbr_cwnd_event" =>
                 tp'.snd_cwnd = Max(tp.snd_cwnd, bbr.prior_cwnd)
          /\ bbr'.mode = IF bbr'.full_bw_reached = 0
                         THEN BBR_STARTUP
                         ELSE BBR_PROBE_BW]_vars

\* PROBE_RTT ended in this call: the window went from the cap of 4 back to a
\* larger prior_cwnd, and the pipe being full, the mode is PROBE_BW.
C20_Witness ==
    /\ obs.exit_cwnd > bbr_cwnd_min_target
    /\ obs.exit_cwnd = bbr.prior_cwnd
    /\ obs.modes = <<BBR_PROBE_BW>>
    /\ bbr.full_bw_reached = 1
    /\ bbr.min_rtt_stamp = tp.jiffies

\* The control block b without the fields named in changed.
Frame(b, changed) == [f \in (DOMAIN b) \ changed |-> b[f]]

\* The fields bbr_lt_bw_sampling can write, the PROBE_BW restart at the end of
\* a long-term interval included.
LtFields ==
    {"lt_is_sampling", "lt_rtt_cnt", "lt_use_bw", "lt_bw", "lt_last_delivered",
     "lt_last_stamp", "lt_last_lost", "pacing_gain", "mode", "cycle_idx",
     "cycle_mstamp"}

\* C21: bbr_set_state(TCP_CA_Loss) sets prev_ca_state = TCP_CA_Loss, zeroes
\* full_bw and full_bw_cnt and sets round_start = 1; with any other new_state
\* it changes no field of the control block.
C21_SetStateZeroesCount ==
    [][op' = "bbr_set_state" =>
          IF tp'.icsk_ca_state = TCP_CA_Loss
          THEN /\ bbr'.prev_ca_state = TCP_CA_Loss
               /\ bbr'.full_bw = 0
               /\ bbr'.full_bw_cnt = 0
               /\ bbr'.round_start = 1
          ELSE bbr' = bbr]_vars

\* C21, as the code has it: bbr_set_state(TCP_CA_Loss) sets prev_ca_state =
\* TCP_CA_Loss, full_bw = 0 and round_start = 1 and leaves full_bw_cnt as it
\* was; the sample with losses = 1 it hands to bbr_lt_bw_sampling starts a
\* sampling interval (counting this round) if none was running; nothing else
\* outside the long-term sampler changes.  Any other new_state changes no
\* field.
C21_SetStateKeepsCount ==
    [][op' = "bbr_set_state" =>
          IF tp'.icsk_ca_state = TCP_CA_Loss
          THEN /\ bbr'.prev_ca_state = TCP_CA_Loss
               /\ bbr'.full_bw = 0
               /\ bbr'.round_start = 1
               /\ (bbr.lt_use_bw = 0 /\ bbr.lt_is_sampling = 0) =>
                      /\ bbr'.lt_is_sampling = 1
                      /\ bbr'.lt_rtt_cnt = 1
                      /\ bbr'.lt_last_lost = tp.lost
                      /\ bbr'.lt_last_delivered = tp.delivered
               /\ Frame(bbr', LtFields \cup {"prev_ca_state", "full_bw",
                                             "round_start"})
                      = Frame(bbr, LtFields \cup {"prev_ca_state", "full_bw",
                                                  "round_start"})
          ELSE bbr' = bbr]_vars

\* A timeout after a round without bandwidth growth: full_bw is zeroed, the
\* count of such rounds is not.
C21_Witness ==
    /\ op = "bbr_set_state"
    /\ tp.icsk_ca_state = TCP_CA_Loss
    /\ bbr.full_bw = 0
    /\ bbr.full_bw_cnt > 0
    /\ bbr.round_start = 1
    /\ bbr.lt_is_sampling = 1


\* C22: bbr_undo_cwnd zeroes full_bw and full_bw_cnt and resets the long-term
\* estimator (lt_bw, lt_use_bw, lt_is_sampling and lt_rtt_cnt all 0); snd_cwnd
\* (the value it returns), mode and full_bw_reached are left as they were.
C22_UndoCwnd ==
    [][op' = "bbr_undo_cwnd" =>
          /\ bbr'.full_bw = 0
          /\ bbr'.full_bw_cnt = 0
          /\ bbr'.lt_bw = 0
          /\ bbr'.lt_use_bw = 0
          /\ bbr'.lt_is_sampling = 0
          /\ bbr'.lt_rtt_cnt = 0
          /\ tp'.snd_cwnd = tp.snd_cwnd
          /\ bbr'.mode = bbr.mode
          /\ bbr'.full_bw_reached = bbr.full_bw_reached]_vars

\* An undo after a timeout that followed two rounds of ACKs: full_bw and the
\* count had been set, and the timeout had started a long-term interval.
C22_Witness ==
    /\ op = "bbr_undo_cwnd"
    /\ bbr.prev_ca_state = TCP_CA_Loss
    /\ bbr.rtt_cnt >= 2
    /\ bbr.full_bw = 0
    /\ bbr.full_bw_cnt = 0
    /\ bbr.lt_is_sampling = 0
    /\ bbr.lt_rtt_cnt = 0


\* C23: bbr_save_cwnd sets prior_cwnd = snd_cwnd when prev_ca_state is below
\* TCP_CA_Recovery and mode is not PROBE_RTT, and max(prior_cwnd, snd_cwnd)
\* otherwise (the mode it sees on PROBE_RTT entry is already PROBE_RTT); so no
\* call of any kind made in loss recovery or in PROBE_RTT lowers prior_cwnd.
\* The ssthresh hook changes prior_cwnd and nothing else: snd_ssthresh, which
\* it returns, and every other field are left alone.
C23_SaveCwnd ==
    [][/\ op' = "bbr_ssthresh" =>
             /\ bbr'.prior_cwnd =
                    IF bbr.prev_ca_state < TCP_CA_Recovery
                       /\ bbr.mode # BBR_PROBE_RTT
                    THEN tp.snd_cwnd
                    ELSE Max(bbr.prior_cwnd, tp.snd_cwnd)
             /\ Frame(bbr', {"prior_cwnd"}) = Frame(bbr, {"prior_cwnd"})
             /\ tp' = tp
       /\ EntersProbeRtt =>
             bbr'.prior_cwnd = Max(bbr.prior_cwnd, tp.snd_cwnd)
       /\ (bbr.prev_ca_state >= TCP_CA_Recovery \/ bbr.mode = BBR_PROBE_RTT) =>
             bbr'.prior_cwnd >= bbr.prior_cwnd]_vars

\* The ssthresh hook ran in loss recovery with the window below the saved
\* one: the larger saved value was kept.
C23_Witness ==
    /\ op = "bbr_ssthresh"
    /\ bbr.prev_ca_state >= TCP_CA_Recovery
    /\ bbr.prior_cwnd > tp.snd_cwnd
    /\ tp.snd_cwnd > 0


\* This bbr_main call is told of newly acknowledged packets and finds the
\* connection out of the loss recovery it was in at the previous call.
ExitsRecovery ==
    /\ op' = "bbr_main"
    /\ rs'.acked_sacked > 0
    /\ bbr.prev_ca_state >= TCP_CA_Recovery
    /\ tp'.icsk_ca_state < TCP_CA_Recovery

\* C24: the bbr_main call that exits loss recovery clears packet_conservation
\* and leaves snd_cwnd = max(the cwnd it found, prior_cwnd).
C24_ExitRestoresCwnd ==
    [][ExitsRecovery =>
          /\ bbr'.packet_conservation = 0
          /\ tp'.snd_cwnd = Max(tp.snd_cwnd, bbr.prior_cwnd)]_vars

\* C24, as the code has it: the call clears packet_conservation and restores
\* the window to max(cwnd less the sample's losses, prior_cwnd), and
\* bbr_set_cwnd then goes on from that value as on any other ACK: it adds the
\* acknowledged packets up to the target once the pipe is full, or while below
\* the target (or within the first TCP_INIT_CWND deliveries) before that, and
\* applies the floor of 4, snd_cwnd_clamp and the PROBE_RTT cap.
C24_ExitRestoresThenGrows ==
    [][ExitsRecovery =>
          LET cwnd0 == IF rs'.losses > 0
                       THEN Max(tp.snd_cwnd - rs'.losses, 1)
                       ELSE tp.snd_cwnd
              restored == Max(cwnd0, bbr'.prior_cwnd)
              grown == IF bbr'.full_bw_reached = 1
                       THEN Min(restored + rs'.acked_sacked, obs'.target_cwnd)
                       ELSE IF restored < obs'.target_cwnd
                               \/ tp'.delivered < TCP_INIT_CWND
                       THEN restored + rs'.acked_sacked
                       ELSE restored
              capped == Min(Max(grown, bbr_cwnd_min_target), tp'.snd_cwnd_clamp)
          IN  /\ bbr'.packet_conservation = 0
              /\ bbr'.prev_ca_state = tp'.icsk_ca_state
              /\ tp'.snd_cwnd = IF bbr'.mode = BBR_PROBE_RTT
                                THEN Min(capped, bbr_cwnd_min_target)
                                ELSE capped]_vars

\* Recovery was exited by a call that also entered PROBE_RTT: the window
\* after the call is below the one the exit restored.
C24_Witness ==
    /\ op = "bbr_main"
    /\ rs.acked_sacked > 0
    /\ bbr.packet_conservation = 0
    /\ bbr.mode = BBR_PROBE_RTT
    /\ obs.restored > bbr_cwnd_min_target
    /\ obs.restored = bbr.prior_cwnd
    /\ tp.snd_cwnd < obs.restored


\* C25: bbr_cwnd_event(CA_EVENT_TX_START) on an application-limited
\* connection sets idle_restart = 1, ack_epoch_acked = 0 and ack_epoch_mstamp
\* = now; in PROBE_BW it sets the pacing rate to the one for the current bw at
\* gain BBR_UNIT, and in STARTUP and DRAIN it changes nothing more.  Any other
\* event, and TX_START when not application-limited, changes nothing.  Once
\* idle_restart is 1 it stays 1 through every call except a bbr_main with
\* delivered > 0, which ends with idle_restart = 0.
C25_IdleRestart ==
    [][/\ op' = "bbr_cwnd_event" =>
             IF obs'.event = CA_EVENT_TX_START /\ tp'.app_limited # 0
             THEN /\ bbr'.idle_restart = 1
                  /\ bbr'.ack_epoch_acked = 0
                  /\ bbr'.ack_epoch_mstamp = tp'.tcp_mstamp
                  /\ bbr.mode = BBR_PROBE_BW =>
                         tp'.sk_pacing_rate =
                             bbr_bw_to_pacing_rate(Sock, bbr_bw(Sock), BBR_UNIT)
                  /\ bbr.mode \in {BBR_STARTUP, BBR_DRAIN} =>
                         /\ Frame(bbr', {"idle_restart", "ack_epoch_acked",
                                         "ack_epoch_mstamp"})
                                = Frame(bbr, {"idle_restart", "ack_epoch_acked",
                                              "ack_epoch_mstamp"})
                         /\ tp'.sk_pacing_rate = tp.sk_pacing_rate
                         /\ tp'.snd_cwnd = tp.snd_cwnd
             ELSE /\ bbr' = bbr
                  /\ tp'.sk_pacing_rate = tp.sk_pacing_rate
                  /\ tp'.snd_cwnd = tp.snd_cwnd
       /\ bbr.idle_restart = 1 =>
             bbr'.idle_restart =
                 IF op' = "bbr_main" /\ rs'.delivered > 0 THEN 0 ELSE 1]_vars

\* A restart from idle in a gain-5/4 phase of PROBE_BW: the pacing rate is the
\* one for gain BBR_UNIT.
C25_Witness ==
    /\ op = "bbr_cwnd_event"
    /\ obs.event = CA_EVENT_TX_START
    /\ bbr.idle_restart = 1
    /\ bbr.ack_epoch_mstamp = tp.tcp_mstamp
    /\ bbr.mode = BBR_PROBE_BW
    /\ bbr.pacing_gain > BBR_UNIT
    /\ tp.sk_pacing_rate = bbr_bw_to_pacing_rate(Sock, bbr_bw(Sock), BBR_UNIT)
    /\ tp.sk_pacing_rate
           < bbr_bw_to_pacing_rate(Sock, bbr_bw(Sock), bbr.pacing_gain)


\* C26: a bbr_main call whose sample begins a round, is not application
\* limited and finds full_bw_reached = 0 compares the windowed-max bw with
\* full_bw * 5/4: at or above it, full_bw becomes the windowed max and
\* full_bw_cnt 0; below it, full_bw_cnt goes up by one and full_bw_reached
\* becomes 1 exactly when the count reaches 3.  Every other bbr_main call
\* leaves the three fields alone.  A call that finds STARTUP and sets
\* full_bw_reached ends in another mode.
C26_FullBwReached ==
    [][op' = "bbr_main" =>
          /\ IF bbr.full_bw_reached = 0 /\ bbr'.round_start = 1
                /\ ~rs'.is_app_limited
             THEN IF minmax_get(bbr'.bw) >= (bbr.full_bw * 5) \div 4
                  THEN /\ bbr'.full_bw = minmax_get(bbr'.bw)
                       /\ bbr'.full_bw_cnt = 0
                       /\ bbr'.full_bw_reached = 0
                  ELSE /\ bbr'.full_bw = bbr.full_bw
                       /\ bbr'.full_bw_cnt = bbr.full_bw_cnt + 1
                       /\ bbr'.full_bw_reached = 1 <=> bbr'.full_bw_cnt = 3
                       /\ bbr'.full_bw_reached \in {0, 1}
             ELSE /\ bbr'.full_bw = bbr.full_bw
                  /\ bbr'.full_bw_cnt = bbr.full_bw_cnt
                  /\ bbr'.full_bw_reached = bbr.full_bw_reached
          /\ (bbr.mode = BBR_STARTUP /\ bbr.full_bw_reached = 0
              /\ bbr'.full_bw_reached = 1) => bbr'.mode # BBR_STARTUP]_vars

\* The third round without growth, after an earlier count had been reset by
\* growth: the call set full_bw_reached and took the connection from STARTUP
\* to DRAIN.
C26_Witness ==
    /\ op = "bbr_main"
    /\ bbr.round_start = 1
    /\ bbr.full_bw_reached = 1
    /\ bbr.full_bw_cnt = 3
    /\ bbr.rtt_cnt > 4
    /\ Len(obs.modes) > 0
    /\ obs.modes[1] = BBR_DRAIN


\* The socket as bbr_check_drain sees it in the bbr_main call of this step:
\* the bandwidth model is already updated from the sample, while min_rtt_us,
\* the gains, the mode and the pacing rate are still those the call found.
DrainView ==
    [bbr |-> [bbr' EXCEPT !.mode = bbr.mode,
                          !.min_rtt_us = bbr.min_rtt_us,
                          !.pacing_gain = bbr.pacing_gain,
                          !.cycle_idx = bbr.cycle_idx],
     tp  |-> [tp' EXCEPT !.sk_pacing_rate = tp.sk_pacing_rate],
     obs |-> NoObs]

\* The call of this step assigned the mode m.
Assigned(m) == \E i \in 1..Len(obs'.modes) : obs'.modes[i] = m

\* C27: a bbr_main call that finds DRAIN goes to PROBE_BW if and only if the
\* packets estimated to be in the network at the earliest departure time are
\* at most the BDP of the windowed-max bw and min_rtt at gain BBR_UNIT;
\* otherwise the call ends in DRAIN or PROBE_RTT.
C27_DrainUntilBdp ==
    [][(op' = "bbr_main" /\ bbr.mode = BBR_DRAIN) =>
          LET inflight == bbr_packets_in_net_at_edt(
                              DrainView, tcp_packets_in_flight(DrainView))
              bdp == bbr_bdp(DrainView, bbr_max_bw(DrainView), BBR_UNIT)
          IN  /\ Assigned(BBR_PROBE_BW) <=> inflight <= bdp
              /\ inflight > bdp => bbr'.mode \in {BBR_DRAIN, BBR_PROBE_RTT}]_vars

\* C27, as the code has it: the bound is bbr_inflight at gain BBR_UNIT, which
\* is that BDP plus the quantization budget: three times the TSO segment goal
\* added, the sum rounded up to an even number.
C27_DrainUntilInflightTarget ==
    [][(op' = "bbr_main" /\ bbr.mode = BBR_DRAIN) =>
          LET inflight == bbr_packets_in_net_at_edt(
                              DrainView, tcp_packets_in_flight(DrainView))
              bdp == bbr_bdp(DrainView, bbr_max_bw(DrainView), BBR_UNIT)
              target == 2 * ((bdp + 3 * bbr_tso_segs_goal(DrainView) + 1)
                                 \div 2)
          IN  /\ Assigned(BBR_PROBE_BW) <=> inflight <= target
              /\ inflight > target =>
                     bbr'.mode \in {BBR_DRAIN, BBR_PROBE_RTT}]_vars

\* DRAIN ended with more packets in the network than the bare BDP: a call
\* that assigned only PROBE_BW, on a connection that has seen neither
\* PROBE_RTT nor the long-term sampler.
C27_Witness ==
    /\ op = "bbr_main"
    /\ obs.modes = <<BBR_PROBE_BW>>
    /\ bbr.cycle_mstamp = tp.delivered_mstamp
    /\ bbr.probe_rtt_done_stamp = 0
    /\ bbr.lt_is_sampling = 0
    /\ bbr.lt_use_bw = 0
    /\ bbr_packets_in_net_at_edt(
           [Sock EXCEPT !.bbr.pacing_gain = bbr_drain_gain],
           tcp_packets_in_flight(Sock))
           > bbr_bdp(Sock, bbr_max_bw(Sock), BBR_UNIT)


\* The socket as bbr_is_next_cycle_phase sees it in the bbr_main call of this
\* step: bbr_update_bw has already run, so the bandwidth and the long-term
\* estimator are updated, pacing_gain is BBR_UNIT if that estimator was
\* engaged by this sample, and the phase is freshly stamped if it expired on
\* this sample; min_rtt_us, the phase and the pacing rate are otherwise those
\* the call found.
PhaseView ==
    [bbr |-> [bbr' EXCEPT
                 !.mode = bbr.mode,
                 !.min_rtt_us = bbr.min_rtt_us,
                 !.pacing_gain = IF bbr.lt_use_bw = 0 /\ bbr'.lt_use_bw # 0
                                 THEN BBR_UNIT
                                 ELSE bbr.pacing_gain,
                 !.cycle_idx = bbr.cycle_idx,
                 !.cycle_mstamp = IF bbr.lt_use_bw # 0 /\ bbr'.lt_use_bw = 0
                                  THEN tp'.delivered_mstamp
                                  ELSE bbr.cycle_mstamp],
     tp  |-> [tp' EXCEPT !.sk_pacing_rate = tp.sk_pacing_rate],
     obs |-> NoObs]

\* A bbr_main call that finds PROBE_BW.
InProbeBw == op' = "bbr_main" /\ bbr.mode = BBR_PROBE_BW

\* How long the phase has run when the call looks: delivered_mstamp -
\* cycle_mstamp.
PhaseElapsed ==
    tcp_stamp_us_delta(PhaseView.tp.delivered_mstamp, PhaseView.bbr.cycle_mstamp)

\* The packets estimated to be in the network at the earliest departure time.
PhaseInflight == bbr_packets_in_net_at_edt(PhaseView, rs'.prior_in_flight)

\* bbr_inflight for the windowed-max bw at the given gain.
PhaseTarget(gain) == bbr_inflight(PhaseView, bbr_max_bw(PhaseView), gain)

\* C28: in PROBE_BW with pacing_gain above BBR_UNIT the phase advances on a
\* call if and only if it has run at least min_rtt and the sample reports
\* losses or the estimated in-flight has reached the target at that gain; it
\* never advances before min_rtt has elapsed.
C28_ProbeUpAtMinRtt ==
    [][(InProbeBw /\ PhaseView.bbr.pacing_gain > BBR_UNIT) =>
          /\ obs'.advanced <=>
                 /\ PhaseElapsed >= bbr.min_rtt_us
                 /\ \/ rs'.losses # 0
                    \/ PhaseInflight >= PhaseTarget(PhaseView.bbr.pacing_gain)
          /\ obs'.advanced => PhaseElapsed >= bbr.min_rtt_us]_vars

\* C28, as the code has it: the phase must have run for more than min_rtt;
\* at exactly min_rtt it does not advance yet.
C28_ProbeUpPastMinRtt ==
    [][(InProbeBw /\ PhaseView.bbr.pacing_gain > BBR_UNIT) =>
          /\ obs'.advanced <=>
                 /\ PhaseElapsed > bbr.min_rtt_us
                 /\ \/ rs'.losses # 0
                    \/ PhaseInflight >= PhaseTarget(PhaseView.bbr.pacing_gain)
          /\ obs'.advanced =>
                 /\ bbr'.cycle_idx = (bbr.cycle_idx + 1) % CYCLE_LEN
                 /\ PhaseElapsed > bbr.min_rtt_us]_vars

\* The gain-5/4 phase ended on a sample with losses although the in-flight
\* target was not reached.
C28_Witness ==
    /\ op = "bbr_main"
    /\ obs.advanced
    /\ bbr.mode = BBR_PROBE_BW
    /\ bbr.cycle_idx = 1
    /\ rs.losses # 0
    /\ rs.prior_in_flight + bbr_tso_segs_goal(Sock)
           < bbr_inflight([Sock EXCEPT !.bbr.cycle_idx = 0],
                          bbr_max_bw(Sock), bbr_pacing_gain[1])

C30_CruiseAtMinRtt ==
    [][(InProbeBw /\ PhaseView.bbr.pacing_gain = BBR_UNIT) =>
          (obs'.advanced <=> PhaseElapsed >= bbr.min_rtt_us)]_vars

\* C30, as the code has it: the phase advances if and only if it has run for
\* more than min_rtt, whatever the losses and the in-flight; this is the rule
\* of every phase while the long-term bw is in use.
C30_CruisePastMinRtt ==
    [][(InProbeBw /\ PhaseView.bbr.pacing_gain = BBR_UNIT) =>
          /\ obs'.advanced <=> PhaseElapsed > bbr.min_rtt_us
          /\ obs'.advanced =>
                 bbr'.cycle_mstamp = tp'.delivered_mstamp]_vars

\* A gain-1 phase ended on a sample with losses and a large in-flight.
C30_Witness ==
    /\ op = "bbr_main"
    /\ obs.advanced
    /\ bbr.mode = BBR_PROBE_BW
    /\ bbr.cycle_idx >= 3
    /\ rs.losses # 0
    /\ rs.prior_in_flight > bbr_inflight(Sock, bbr_max_bw(Sock), BBR_UNIT)


\* The caps bbr_set_cwnd applies at its label "done" to the window c.
Capped(c) ==
    IF bbr'.mode = BBR_PROBE_RTT
    THEN Min(Min(c, tp'.snd_cwnd_clamp), bbr_cwnd_min_target)
    ELSE Min(c, tp'.snd_cwnd_clamp)

\* The window bbr_set_cwnd_to_recover_or_restore starts from in the call of
\* this step: the one the call found (or the one a PROBE_RTT exit earlier in
\* the call restored), less the sample's losses, at least 1.
AfterLosses ==
    LET cwnd == IF obs'.exit_cwnd # 0 THEN obs'.exit_cwnd ELSE tp.snd_cwnd
    IN  IF rs'.losses > 0 THEN Max(cwnd - rs'.losses, 1) ELSE cwnd

\* What packet conservation does to the window, in the call that starts it
\* and in the calls that keep it.
ConservesPackets ==
    (op' = "bbr_main" /\ rs'.acked_sacked > 0) =>
        /\ EntersRecovery =>
               /\ bbr'.packet_conservation = 1
               /\ bbr'.next_rtt_delivered = tp'.delivered
               /\ tp'.snd_cwnd
                      = Capped(tp'.packets_in_flight + rs'.acked_sacked)
               /\ obs'.target_cwnd = 0
        /\ (bbr.packet_conservation = 1 /\ bbr'.packet_conservation = 1
            /\ ~EntersRecovery) =>
               /\ tp'.snd_cwnd
                      = Capped(Max(AfterLosses,
                                   tp'.packets_in_flight + rs'.acked_sacked))
               /\ obs'.target_cwnd = 0

\* C31: the first ACK with acked > 0 seen in Recovery sets
\* packet_conservation, starts a round (next_rtt_delivered = delivered) and
\* sets cwnd to packets_in_flight + acked, before the caps; while the flag
\* stays set each such ACK gives cwnd = max(cwnd - losses (at least 1),
\* packets_in_flight + acked) without computing a target; and a call that
\* begins a round or exits recovery ends with the flag cleared.
C31_ConservationEndsAtRound ==
    [][/\ ConservesPackets
       /\ (op' = "bbr_main" /\ bbr.packet_conservation = 1
           /\ (bbr'.round_start = 1 \/ ExitsRecovery)) =>
              bbr'.packet_conservation = 0]_vars

\* C31, as the code has it: the same, except that a call that begins a round
\* and finds the connection newly in Recovery (prev_ca_state had become Loss
\* in between) clears the flag in bbr_update_bw and sets it again in
\* bbr_set_cwnd, so it ends with the flag set; a set flag is changed by
\* nothing else.
C31_ConservationUnlessReentered ==
    [][/\ ConservesPackets
       /\ bbr.packet_conservation = 1 =>
              bbr'.packet_conservation =
                  IF op' = "bbr_main" /\ EntersRecovery THEN 1
                  ELSE IF op' = "bbr_main"
                          /\ (bbr'.round_start = 1 \/ ExitsRecovery) THEN 0
                  ELSE 1]_vars

\* An ACK with losses inside the first round of Recovery: the window is the
\* packets in flight plus those acknowledged, above the window less the
\* losses.
C31_Witness ==
    /\ op = "bbr_main"
    /\ rs.acked_sacked > 0
    /\ rs.losses > 0
    /\ bbr.round_start = 0
    /\ bbr.packet_conservation = 1
    /\ bbr.prev_ca_state = TCP_CA_Recovery
    /\ bbr.next_rtt_delivered < tp.delivered
    /\ tp.snd_cwnd = tp.packets_in_flight + rs.acked_sacked
    /\ obs.target_cwnd = 0

\* C32: lt_use_bw becomes true only at the end of an interval whose rate bw
\* is close to the non-zero lt_bw the preceding interval left: the
\* difference is at most 1/8 of lt_bw or at most bbr_lt_bw_diff bytes per
\* second; then lt_bw is the mean of the two rates, lt_rtt_cnt is 0 and
\* pacing_gain is BBR_UNIT.
C32_LtEngagesOnCloseRates ==
    [][(op' = "bbr_lt_bw_interval_done" /\ bbr.lt_use_bw = 0
        /\ bbr'.lt_use_bw = 1)
       => LET diff == Abs(obs'.bw - bbr.lt_bw)
          IN  /\ bbr.lt_bw # 0
              /\ \/ 8 * diff <= bbr.lt_bw
                 \/ bbr_rate_bytes_per_sec(Sock, diff, BBR_UNIT)
                        <= bbr_lt_bw_diff
              /\ bbr'.lt_bw = (bbr.lt_bw + obs'.bw) \div 2
              /\ bbr'.lt_rtt_cnt = 0
              /\ bbr'.pacing_gain = BBR_UNIT]_vars

\* C32: the long-term rate is in use after two intervals whose rates differ
\* by a whole BW_UNIT, many times the slower one.
C32_Witness ==
    /\ op = "bbr_lt_bw_interval_done"
    /\ bbr.lt_use_bw = 1
    /\ Abs(2 * (obs.bw - bbr.lt_bw)) = BW_UNIT
    /\ bbr.lt_bw > BW_UNIT \div 2

\* The packets bbr_update_ack_aggregation() expects to have been delivered
\* in the epoch that is open when the sample arrives.
AggExpected ==
    MulShr(bbr_bw([bbr |-> bbr']),
           tcp_stamp_us_delta(tp'.delivered_mstamp, bbr.ack_epoch_mstamp),
           BW_SCALE)

AggReset ==
    \/ bbr.ack_epoch_acked <= AggExpected
    \/ bbr.ack_epoch_acked + rs'.acked_sacked
           >= bbr_ack_epoch_acked_reset_thresh

AggToggles ==
    /\ bbr'.round_start = 1
    /\ bbr.extra_acked_win_rtts + 1 >= bbr_extra_acked_win_rtts

\* A call processes a valid sample that newly acknowledges packets.
AggValid ==
    /\ op' \in {"bbr_main", "bbr_update_ack_aggregation"}
    /\ rs'.acked_sacked > 0
    /\ rs'.delivered >= 0
    /\ rs'.interval_us > 0

\* C33: on a valid sample with acked_sacked > 0 the epoch is reset exactly
\* when ack_epoch_acked <= expected or ack_epoch_acked + acked_sacked
\* reaches 2^20; extra = ack_epoch_acked - expected is not negative and is
\* capped by snd_cwnd; the active slot holds the maximum extra seen since it
\* was opened; on every fifth round start the index toggles and the fresh
\* slot starts from zero.
C33_AckAggregation ==
    [][AggValid
       => LET acked == Min(bbr_ack_epoch_acked_reset_thresh - 1,
                           (IF AggReset THEN 0 ELSE bbr.ack_epoch_acked)
                               + rs'.acked_sacked)
              extra == acked - (IF AggReset THEN 0 ELSE AggExpected)
              idx   == IF AggToggles THEN 1 - bbr.extra_acked_win_idx
                       ELSE bbr.extra_acked_win_idx
              slot  == IF AggToggles THEN 0 ELSE bbr.extra_acked[idx + 1]
          IN  /\ bbr'.ack_epoch_acked = acked
              /\ bbr'.ack_epoch_mstamp = IF AggReset THEN tp'.delivered_mstamp
                                         ELSE bbr.ack_epoch_mstamp
              /\ extra >= 0
              /\ bbr'.extra_acked_win_idx = idx
              /\ bbr'.extra_acked[idx + 1] = Max(slot, Min(extra, tp.snd_cwnd))
              /\ bbr'.extra_acked[2 - idx] = bbr.extra_acked[2 - idx]
              /\ bbr'.extra_acked_win_rtts =
                     IF AggToggles THEN 0
                     ELSE bbr.extra_acked_win_rtts + bbr'.round_start]_vars

\* C33: an epoch has gathered more than 2^16 packets under a window that
\* large, and the active slot holds less than the last ACK alone delivered.
C33_Witness ==
    /\ op = "bbr_update_ack_aggregation"
    /\ bbr.ack_epoch_acked >= Pow2(16)
    /\ tp.snd_cwnd >= Pow2(16)
    /\ bbr.extra_acked[bbr.extra_acked_win_idx + 1] < rs.acked_sacked

\* C34: at every operation boundary after bbr_init, STARTUP implies that
\* the pipe has not been found full, and DRAIN or PROBE_BW implies that it
\* has.
C34_ModeCoherentWithFullBw ==
    op # "bbr_init"
    => /\ bbr.mode = BBR_STARTUP => bbr.full_bw_reached = 0
       /\ bbr.mode \in {BBR_DRAIN, BBR_PROBE_BW} => bbr.full_bw_reached = 1

\* C34: a hook has zeroed the full_bw baseline of a flow in DRAIN or
\* PROBE_BW, and the pipe is still recorded as full.
C34_Witness ==
    /\ op \in {"bbr_set_state", "bbr_undo_cwnd"}
    /\ bbr.mode \in {BBR_DRAIN, BBR_PROBE_BW}
    /\ bbr.full_bw = 0
    /\ bbr.full_bw_reached = 1

\* C35: while samples keep arriving with an advancing clock, drained ones
\* and ones that begin a round among them, PROBE_RTT is always left for
\* STARTUP or PROBE_BW; and a sample that enters PROBE_RTT leaves the
\* connection in PROBE_RTT.
C35_ProbeRttTerminates ==
    /\ (bbr.mode = BBR_PROBE_RTT)
           ~> (bbr.mode \in {BBR_STARTUP, BBR_PROBE_BW})
    /\ [][(op' = "bbr_update_min_rtt" /\ bbr.mode # BBR_PROBE_RTT
           /\ Assigned(BBR_PROBE_RTT))
          => bbr'.mode = BBR_PROBE_RTT]_vars

\* C35: a sample has ended a PROBE_RTT episode, after a round at the
\* reduced window, by a return to PROBE_BW.
C35_Witness ==
    /\ op = "bbr_update_min_rtt"
    /\ obs.modes = <<BBR_PROBE_BW>>
    /\ bbr.probe_rtt_round_done = 1
    /\ bbr.probe_rtt_done_stamp # 0

====
